---------------------------- MODULE Spec2Model ----------------------------
(***************************************************************************)
(* Memory subsystem of derek-core (RISC-V Sv39 kernel): the frame          *)
(* allocator, the page table, virtual areas, address spaces and the        *)
(* process control block's first-execution set-up.                         *)
(*                                                                         *)
(* Addresses are 64-bit machine words in the source.  Here an address is   *)
(* the pair of its page number and its byte offset inside the page,        *)
(* addr = pn * PAGE_SIZE + off, so that every quantity stays inside the    *)
(* integer range of the model checker.                                     *)
(***************************************************************************)
EXTENDS Integers, Sequences, FiniteSets, TLC

VARIABLES
    frame_allocator, \* FRAME_ALLOCATOR: [page_allocated (slot i+1 is frame i), base_addr]
    mem,             \* physical memory of the heap window: frame number -> (word index -> word)
    panicked,        \* the kernel has panicked (panic handler: wfi forever)
    fa_live,         \* history: allocations returned by allocate and not yet deallocated
    fa_freed,        \* history: the addresses deallocate returned from since the last
                     \* allocate, and whether the last call was a deallocate of one of them
    pt,              \* a PageTableGuard under test (SpecPT), or NoGuard
    pt_mapped,       \* history: va -> (pa, flags) of the map_one_allocate calls that returned
    pt_calls,        \* history: number of map_one_allocate calls made so far (SpecPT)
    image,           \* the linked kernel image: linker symbols and the embedded init program
    trap_contexts,   \* the TrapContext structures written into frames: physical address -> TrapContext
    kernel_space,    \* KERNEL_ADDRESS_SPACE: None before its first use, Some(AddrSpace) after
    satp,            \* the satp register of the hart
    pid_allocator,   \* PID_ALLOCATOR: the tracker of free process identifiers
    procs,           \* the live ProcessControlBlocks, by the slot holding them
    last_op,         \* history: the operation that produced this state
    n_ops,           \* history: number of operations made so far (SpecAS)
    pcb_table,       \* a ResourceTable: [active_slots, free_slots: [free_ids, capacity]]
    pcb_table_hist,  \* history: the table's initial capacity, the ids its reserve_entry calls
                     \* returned, whether remove_entry was ever called, and the last call
    sscratch,        \* the sscratch register of the hart
    stvec,           \* the stvec register of the hart
    sstatus,         \* the sstatus register of the hart: [sie, spie, spp]
    mode,            \* the privilege mode the hart executes in: "S" or "U"
    running_process, \* CPUS[hart].running_process: None or Some(slot of the PCB)
    ready_queue,     \* PROCESS_MANAGER.ready_queue: the slots of the queued PCBs, front first
    trap_entry,      \* history: the trap the hart took last and the trap context it found
    harts,           \* the harts that call into PROCESS_MANAGER (SpecMH): the holder of its
                     \* Mutex, each hart's position in its call, the id it has in hand and
                     \* the ids its reserve_entry calls returned
    boot             \* the harts that run kmain (SpecKM): each hart's position, registers
                     \* and CPUS block, HART0_STARTED, the RwLock of KERNEL_ADDRESS_SPACE,
                     \* the ready queue and the state of the kernel's page table

-----------------------------------------------------------------------------
(* Bounds of the model *)

\* number of frames of the allocator under SpecFA
FaPages == 4
\* number of harts that call into the process manager under SpecMH, and that
\* boot through kmain under SpecKM
MaxHarts == 2
\* number of allocate_one_frame calls and FrameGuard drops made under SpecFH
MaxFrameOps == 6
\* number of reserve_entry calls made under SpecMH
MaxReserves == 5
\* number of frames of the heap window under SpecPT
PtHeapPages == 6
\* number of map_one_allocate calls made under SpecPT
MaxMaps == 3
\* largest allocation size, in pages, requested under SpecFA
MaxRun == 3
\* largest number of simultaneously live allocations under SpecFA
MaxLive == 3
\* number of frames of the heap [__heap_start, __heap_end) under SpecAS
HeapPages == 40
\* number of slots holding ProcessControlBlocks under SpecAS
MaxProcs == 2
\* number of operations made after boot under SpecAS
MaxOps == 3
\* number of operations made on the process manager under SpecPM
MaxPmOps == 5
\* number of traps taken from user mode under SpecTR
MaxTraps == 3
\* largest initial capacity of the ResourceTable under SpecRT
RtMaxCap == 3
\* number of calls made on the ResourceTable under SpecRT
RtMaxCalls == 5

-----------------------------------------------------------------------------
(* layout.rs / arithmetics.rs / memory.rs : address primitives *)

PAGE_SIZE == 4096
PAGE_ORDER == 12
USIZE_BITS == 64

\* 1 << n
Pow2(n) == 2 ^ n

\* bitwise AND / OR of two naturals over their low w bits (w >= 1): one bit
\* when w = 1, else the low w \div 2 bits and the bits above them
RECURSIVE BitAnd(_, _, _)
BitAnd(a, b, w) ==
    IF w = 1 THEN (IF a % 2 = 1 /\ b % 2 = 1 THEN 1 ELSE 0)
    ELSE BitAnd(a % Pow2(w \div 2), b % Pow2(w \div 2), w \div 2)
         + Pow2(w \div 2) * BitAnd(a \div Pow2(w \div 2), b \div Pow2(w \div 2), w - w \div 2)

RECURSIVE BitOr(_, _, _)
BitOr(a, b, w) ==
    IF w = 1 THEN (IF a % 2 = 1 \/ b % 2 = 1 THEN 1 ELSE 0)
    ELSE BitOr(a % Pow2(w \div 2), b % Pow2(w \div 2), w \div 2)
         + Pow2(w \div 2) * BitOr(a \div Pow2(w \div 2), b \div Pow2(w \div 2), w - w \div 2)

\* `!x == 0` on a usize: bitwise NOT of x is zero iff all USIZE_BITS bits of x are set
RECURSIVE AllOnes(_, _)
AllOnes(x, w) == IF w = 0 THEN TRUE ELSE (x % 2 = 1) /\ AllOnes(x \div 2, w - 1)

BitNotIsZero(x) == AllOnes(x, USIZE_BITS)

Addr(pn, off) == [pn |-> pn, off |-> off]

\* an intermediate result under a name: With(e, LAMBDA x : body) is body with
\* x = e, e computed before the body
With(v, F(_)) == CHOOSE r \in {F(x) : x \in {v}} : TRUE

\* impl Add<usize>: address plus a byte count
AddrAdd(a, n) == Addr(a.pn + ((a.off + n) \div PAGE_SIZE), (a.off + n) % PAGE_SIZE)

\* impl Sub: byte distance between two addresses
AddrSub(a, b) == (a.pn - b.pn) * PAGE_SIZE + (a.off - b.off)

is_page_aligned(a) == a.off % PAGE_SIZE = 0

\* ALIGN_DOWN(val, PAGE_ORDER) = val & !(2^12 - 1)
align_down(a) == Addr(a.pn, 0)

\* ALIGN_UP(val, PAGE_ORDER) = (val + 2^12 - 1) & !(2^12 - 1)
align_up(a) == align_down(AddrAdd(a, Pow2(PAGE_ORDER) - 1))

\* PG_ROUND_UP on a byte count
PG_ROUND_UP(size) == ((size + (Pow2(PAGE_ORDER) - 1)) \div Pow2(PAGE_ORDER)) * Pow2(PAGE_ORDER)

-----------------------------------------------------------------------------
(* kernel.ld : the physical window the frame allocator manages *)

\* page number of KERNEL_BASE = 0x8000_0000
KERNEL_BASE_PN == 524288

\* __heap_start under SpecFA and SpecPT (page aligned by the linker script)
FaBase == Addr(KERNEL_BASE_PN + 16, 0)

-----------------------------------------------------------------------------
(* allocator/frame_allocator.rs *)

\* FrameAllocator::new(base_addr, n_pages)
FrameAllocator_new(base_addr, n_pages) ==
    [page_allocated |-> [s \in 1..n_pages |-> 0], base_addr |-> base_addr]

\* inner loop of allocate: for j in 0..npages { if !page_allocated[i + j] == 0 {found = false; break} }
\*   "oob"      : the read page_allocated[i + j] is out of bounds (panic)
\*   "found"    : the loop ended with found = true
\*   "notfound" : the loop broke with found = false
RECURSIVE alloc_inner(_, _, _, _)
alloc_inner(pa, i, npages, j) ==
    IF j >= npages THEN "found"
    ELSE IF i + j >= Len(pa) THEN "oob"
    ELSE IF BitNotIsZero(pa[i + j + 1]) THEN "notfound"
    ELSE alloc_inner(pa, i, npages, j + 1)

\* outer loop of allocate: it stops at the first index i (0-based) whose slot
\* is zero and whose inner loop does not break with found = false; there the
\* inner loop either read out of bounds (panic) or left found = true.  No such
\* index: the panic "out of memory"
alloc_scan(fa, size, npages) ==
    LET pa == fa.page_allocated
        stops == {i \in 0..(Len(pa) - 1) :
                     pa[i + 1] = 0 /\ alloc_inner(pa, i, npages, 0) # "notfound"}
    IN  IF stops = {} THEN [ok |-> FALSE, fa |-> fa, ptr |-> fa.base_addr]
        ELSE With(CHOOSE x \in stops : \A y \in stops : x <= y, LAMBDA i :
                 IF alloc_inner(pa, i, npages, 0) = "oob"
                 THEN [ok |-> FALSE, fa |-> fa, ptr |-> fa.base_addr]
                 ELSE [ok |-> TRUE,
                       fa |-> [fa EXCEPT !.page_allocated =
                           [s \in 1..Len(pa) |->
                               IF s - 1 >= i /\ s - 1 < i + npages THEN npages ELSE pa[s]]],
                       ptr |-> AddrAdd(fa.base_addr, i * size)])

\* an allocate that returns its address and leaves the slots as they were
allocate_unmarked(fa, size) ==
    [alloc_scan(fa, size, PG_ROUND_UP(size) \div PAGE_SIZE) EXCEPT !.fa = fa]

\* FrameAllocator::allocate(size); ok = FALSE is a panic
allocate(fa, size) ==
    alloc_scan(fa, size, PG_ROUND_UP(size) \div PAGE_SIZE)

\* first index of begin..begin+npages-1 at which the loop of deallocate panics
\* (index out of bounds or assert_eq failure); begin + npages when it does not
RECURSIVE dealloc_stop(_, _, _, _)
dealloc_stop(pa, npages, id, end) ==
    IF id >= end THEN end
    ELSE IF id >= Len(pa) THEN id
    ELSE IF pa[id + 1] # npages THEN id
    ELSE dealloc_stop(pa, npages, id + 1, end)

\* FrameAllocator::deallocate(addr); ok = FALSE is a panic, with the slots
\* cleared before the panic left cleared
deallocate(fa, addr) ==
    LET pa == fa.page_allocated
        begin_idx == AddrSub(addr, fa.base_addr) \div PAGE_SIZE
    IN
    IF begin_idx < 0 \/ begin_idx >= Len(pa)
    THEN [ok |-> FALSE, fa |-> fa]
    ELSE LET npages == pa[begin_idx + 1]
             stop == dealloc_stop(pa, npages, begin_idx, begin_idx + npages)
         IN  [ok |-> stop = begin_idx + npages,
              fa |-> [fa EXCEPT !.page_allocated =
                  [s \in 1..Len(pa) |-> IF s - 1 >= begin_idx /\ s - 1 < stop THEN 0 ELSE pa[s]]]]

-----------------------------------------------------------------------------
(* Physical memory and the kernel's memory state *)

\* number of 64-bit words in a frame: PAGE_SIZE / 8, the entries of a page table node
WordsPerFrame == PAGE_SIZE \div 8

\* a frame all of whose words are zero
EmptyFrame == [i \in 0..(WordsPerFrame - 1) |-> 0]

\* frame numbers of the window [base_addr, base_addr + n_pages * PAGE_SIZE)
HeapFrames(fa) == fa.base_addr.pn .. (fa.base_addr.pn + Len(fa.page_allocated) - 1)

\* the 64-bit word at index idx of frame pn, read through the identity mapping
\* (frames outside the heap window hold no page table: they read as zero)
ReadWord(m, pn, idx) == IF pn \in DOMAIN m THEN m[pn][idx] ELSE 0

WriteWord(m, pn, idx, v) == IF pn \in DOMAIN m THEN [m EXCEPT ![pn][idx] = v] ELSE m

\* the state the memory operations thread through: physical memory (mem), the
\* trap contexts written into frames (tc), the frame allocator (fa), and
\* ok = FALSE once a panic has happened (nothing runs after it)
KState(m, tc, fa) == [mem |-> m, tc |-> tc, fa |-> fa, ok |-> TRUE]

\* no frame holds a trap context
NoTrapContexts == [a \in {} |-> 0]

\* allocate_one_frame()
allocate_one_frame(k) ==
    With(allocate(k.fa, PAGE_SIZE), LAMBDA r :
        [k |-> [k EXCEPT !.fa = r.fa, !.ok = k.ok /\ r.ok], pa |-> r.ptr])

\* deallocate_one_frame(pa)
deallocate_one_frame(k, pa) ==
    IF ~k.ok THEN k
    ELSE With(deallocate(k.fa, pa), LAMBDA r : [k EXCEPT !.fa = r.fa, !.ok = r.ok])

\* Frame::from(PhysAddr): the frame number of the page-aligned-down address
Frame_from(pa) == align_down(pa).pn

\* Frame::get_base_phys_addr
get_base_phys_addr(frame) == Addr(frame, 0)

\* FrameGuard::allocate_zeroed(): allocate one frame and zero its bytes
FrameGuard_allocate_zeroed(k) ==
    With(allocate_one_frame(k), LAMBDA a :
    With(Frame_from(a.pa), LAMBDA frame :
        IF ~a.k.ok THEN [k |-> a.k, frame |-> frame]
        ELSE [k |-> [a.k EXCEPT
                        !.mem = IF frame \in DOMAIN @ THEN [@ EXCEPT ![frame] = EmptyFrame] ELSE @,
                        !.tc = [x \in {y \in DOMAIN @ : y.pn # frame} |-> @[x]]],
              frame |-> frame]))

\* Drop for FrameGuard
FrameGuard_drop(k, frame) == deallocate_one_frame(k, get_base_phys_addr(frame))

\* dropping a Vec<FrameGuard>: its elements in order
RECURSIVE drop_frames_range(_, _, _, _)
drop_frames_range(k, frames, lo, hi) ==
    IF lo < hi
    THEN CHOOSE r \in {drop_frames_range(k1, frames, (lo + hi) \div 2 + 1, hi) :
                       k1 \in {drop_frames_range(k, frames, lo, (lo + hi) \div 2)}} : TRUE
    ELSE IF lo > hi THEN k
    ELSE FrameGuard_drop(k, frames[lo])

drop_frames(k, frames) == drop_frames_range(k, frames, 1, Len(frames))

-----------------------------------------------------------------------------
(* mm/layout.rs : the virtual and physical layout *)

\* PhysAddr::new / VirtAddr::new on a machine word
FromUsize(n) == AddrAdd(Addr(0, 0), n)

\* MAX_VA = 1 << (9 + 9 + 9 + 12 - 1): page number 1 << (9 + 9 + 9 - 1)
MAX_VA == Addr(Pow2(9 + 9 + 9 - 1), 0)
TRAMPOLINE_BASE_VA == AddrAdd(MAX_VA, 0 - PAGE_SIZE)
TRAPFRAME_BASE_USER_VA == AddrAdd(TRAMPOLINE_BASE_VA, 0 - (2 * PAGE_SIZE))
TRAPFRAME_SIZE == PAGE_SIZE
TEXT_BASE_USER_VA == FromUsize(65536)
UART_BASE == FromUsize(268435456)
UART_SIZE == PAGE_SIZE
VIRTIO_BASE == FromUsize(268439552)
VIRTIO_SIZE == PAGE_SIZE
CLINT_BASE == FromUsize(33554432)
CLINT_SIZE == 65536
PLIC_BASE == FromUsize(201326592)
PLIC_SIZE == 4194304

-----------------------------------------------------------------------------
(* mm/page_table.rs : page table entries *)

ENTRY_PER_TABLE == 512
VA_OFFSET_WIDTH == 12
VA_INDEX_WIDTH == 9
\* width of the flag field of a PTE: bits 0..9
PTE_FLAG_BITS == 10

PTE_VALID == 1
PTE_READABLE == 2
PTE_WRITABLE == 4
PTE_EXECUTABLE == 8
PTE_USER == 16

FlagsOr(a, b) == BitOr(a, b, PTE_FLAG_BITS)
FlagsAnd(a, b) == BitAnd(a, b, PTE_FLAG_BITS)
\* flags & !mask
FlagsClear(a, mask) == a - FlagsAnd(a, mask)
FlagsContains(a, b) == FlagsAnd(a, b) = b

\* PageTableEntry::make_entry: frame.number << 10 | flags.bits()
make_entry(pa, flags) == Frame_from(pa) * Pow2(PTE_FLAG_BITS) + flags

\* PageTableEntry::flags: bits & ((1 << 10) - 1)
pte_flags(bits) == bits % Pow2(PTE_FLAG_BITS)

\* PageTableEntry::referencing_address: PTE2PA(bits) = (bits >> 10) << 12
referencing_address(bits) == Addr(bits \div Pow2(PTE_FLAG_BITS), 0)

\* PageTableEntry::referencing_frame
referencing_frame(bits) == referencing_address(bits).pn

\* PageTableEntry::is_valid
is_valid(bits) == FlagsContains(pte_flags(bits), PTE_VALID)

\* VirtFrame::from_virt_addr
VirtFrame_from_virt_addr(va) == align_down(va).pn

\* VirtAddr::pte_index(level): (vpn >> level * 9) & ((1 << 9) - 1)
pte_index(va, level) ==
    (VirtFrame_from_virt_addr(va) \div Pow2(level * VA_INDEX_WIDTH)) % Pow2(VA_INDEX_WIDTH)

\* VirtAddr::offset: va & VA_OFFSET_WIDTH (the width, not a mask of that width);
\* VA_OFFSET_WIDTH < PAGE_SIZE, so only the low 12 bits of va take part
va_offset(va) == BitAnd(va.off, VA_OFFSET_WIDTH, PAGE_ORDER)

\* PhysAddr::with_offset: (self & !mask) | (offset & mask), mask = (1 << 12) - 1
with_offset(pa, offset) == Addr(pa.pn, offset % Pow2(VA_OFFSET_WIDTH))

-----------------------------------------------------------------------------
(* mm/page_table.rs : PageTableGuard *)

NoGuard == [root_node |-> Addr(0, 0), node_frames |-> <<>>]

None == [some |-> FALSE]
Some(x) == [some |-> TRUE, val |-> x]

\* PageTableGuard::allocate
PageTableGuard_allocate(k) ==
    With(FrameGuard_allocate_zeroed(k), LAMBDA g :
        [k |-> g.k,
         pt |-> [root_node |-> get_base_phys_addr(g.frame), node_frames |-> <<g.frame>>]])

\* allocate_node that forgets its guard (the frame is never pushed onto node_frames)
allocate_node_unowned(k, tbl) ==
    With(FrameGuard_allocate_zeroed(k), LAMBDA g : [k |-> g.k, pt |-> tbl, frame |-> g.frame])

\* PageTableGuard::allocate_node
allocate_node(k, tbl) ==
    With(FrameGuard_allocate_zeroed(k), LAMBDA g :
        [k |-> g.k, pt |-> [tbl EXCEPT !.node_frames = Append(@, g.frame)], frame |-> g.frame])

\* the loop of PageTableGuard::find from `level` down, on the node in frame `table`:
\* the place (node frame, index) of the level-0 entry, or None
RECURSIVE find_walk(_, _, _, _)
find_walk(m, table, va, level) ==
    LET index == pte_index(va, level)
        pte == ReadWord(m, table, index)
    IN  IF level = 0 THEN Some([node |-> table, index |-> index])
        ELSE IF ~is_valid(pte) THEN None
        ELSE find_walk(m, referencing_frame(pte), va, level - 1)

\* find with its loop written `for level in 0..=2` (the .rev() forgotten): the
\* first iteration is level 0 and returns the root's entry
find_unreversed(m, tbl, va) ==
    Some([node |-> Frame_from(tbl.root_node), index |-> pte_index(va, 0)])

\* PageTableGuard::find
find(m, tbl, va) == find_walk(m, Frame_from(tbl.root_node), va, 2)

\* PageTableGuard::translate
translate(m, tbl, va) ==
    With(find(m, tbl, va), LAMBDA r :
        IF ~r.some THEN None
        ELSE With(ReadWord(m, r.val.node, r.val.index), LAMBDA pte :
                 Some([pa |-> with_offset(referencing_address(pte), va_offset(va)),
                       flags |-> pte_flags(pte)])))

\* the loop of PageTableGuard::find_allocate from `level` down
RECURSIVE find_allocate_walk(_, _, _, _, _)
find_allocate_walk(k, tbl, table, va, level) ==
    LET index == pte_index(va, level)
        pte == ReadWord(k.mem, table, index)
    IN  IF level = 0 \/ ~k.ok THEN [k |-> k, pt |-> tbl, node |-> table, index |-> index]
        ELSE IF ~is_valid(pte)
        THEN With(allocate_node(k, tbl), LAMBDA a :
             With(get_base_phys_addr(a.frame), LAMBDA node_pa :
             With(make_entry(node_pa, PTE_VALID), LAMBDA new :
                 IF ~a.k.ok THEN [k |-> a.k, pt |-> a.pt, node |-> table, index |-> index]
                 ELSE find_allocate_walk(
                          [a.k EXCEPT
                              !.mem = WriteWord(@, table, index, new),
                              !.ok = /\ referencing_address(new) = node_pa
                                     /\ pte_flags(new) = PTE_VALID],
                          a.pt, referencing_frame(new), va, level - 1))))
        ELSE find_allocate_walk(k, tbl, referencing_frame(pte), va, level - 1)

\* PageTableGuard::find_allocate
find_allocate(k, tbl, va) == find_allocate_walk(k, tbl, Frame_from(tbl.root_node), va, 2)

\* map_one_allocate without its assert!(!pte.is_valid()): a mapped leaf is overwritten
map_one_allocate_overwrites(k, tbl, va, pa, flags) ==
    IF ~k.ok THEN [k |-> k, pt |-> tbl]
    ELSE
    With(find_allocate(k, tbl, va), LAMBDA f :
    With(FlagsOr(flags, PTE_VALID), LAMBDA fl :
    With(make_entry(pa, fl), LAMBDA new :
        IF ~f.k.ok THEN [k |-> f.k, pt |-> f.pt]
        ELSE [k |-> [f.k EXCEPT
                        !.mem = WriteWord(@, f.node, f.index, new),
                        !.ok = referencing_address(new) = pa /\ pte_flags(new) = fl],
              pt |-> f.pt])))

\* PageTableGuard::map_one_allocate
map_one_allocate(k, tbl, va, pa, flags) ==
    IF ~k.ok THEN [k |-> k, pt |-> tbl]
    ELSE
    With(find_allocate(k, tbl, va), LAMBDA f :
    With(FlagsOr(flags, PTE_VALID), LAMBDA fl :
    With(make_entry(pa, fl), LAMBDA new :
        IF ~f.k.ok THEN [k |-> f.k, pt |-> f.pt]
        ELSE IF is_valid(ReadWord(f.k.mem, f.node, f.index))
        THEN [k |-> [f.k EXCEPT !.ok = FALSE], pt |-> f.pt]
        ELSE [k |-> [f.k EXCEPT
                        !.mem = WriteWord(@, f.node, f.index, new),
                        !.ok = referencing_address(new) = pa /\ pte_flags(new) = fl],
              pt |-> f.pt])))

\* dropping a PageTableGuard: its node_frames (the root first) go back to the allocator
PageTableGuard_drop(k, tbl) == drop_frames(k, tbl.node_frames)

-----------------------------------------------------------------------------
(* kernel.ld and the embedded init program: the linked kernel image.  The      *)
(* variable image holds the addresses the linker chose; it never changes.      *)

\* an image: .text of two pages (plus text_tail bytes) from KERNEL_BASE with the
\* trampoline in page tramp_page of it, then .rodata holding the init program
\* of init_len bytes at offset init_off, .data, .bss, the boot stack and the
\* heap of heap_pages frames; every section starts on a page boundary
Image(tramp_page, text_tail, init_off, init_len, heap_gap) ==
    LET text_start == Addr(KERNEL_BASE_PN, 0)
        text_end == AddrAdd(text_start, 2 * PAGE_SIZE + text_tail)
        rodata_start == align_up(text_end)
        init_ptr == AddrAdd(rodata_start, init_off)
        rodata_end == AddrAdd(init_ptr, init_len)
        data_start == align_up(rodata_end)
        data_end == AddrAdd(data_start, 256 + text_tail)
        bss_start == align_up(data_end)
        bss_end == AddrAdd(bss_start, PAGE_SIZE)
        stack_start == align_up(bss_end)
        stack_end == AddrAdd(stack_start, 2 * PAGE_SIZE)
        heap_start == IF heap_gap = 0 THEN stack_end ELSE Addr(KERNEL_BASE_PN + heap_gap, 0)
    IN  [text_start |-> text_start,
         trampoline_start |-> AddrAdd(text_start, tramp_page * PAGE_SIZE),
         usertrap |-> AddrAdd(text_start, 512),
         text_end |-> text_end,
         rodata_start |-> rodata_start,
         init_text_ptr |-> init_ptr,
         init_text_len |-> init_len,
         rodata_end |-> rodata_end,
         data_start |-> data_start,
         data_end |-> data_end,
         bss_start |-> bss_start,
         bss_end |-> bss_end,
         kernel_stack_start |-> stack_start,
         kernel_stack_end |-> stack_end,
         heap_start |-> heap_start,
         heap_end |-> AddrAdd(heap_start, HeapPages * PAGE_SIZE)]

__trampoline_start == image.trampoline_start
__text_start == image.text_start
__text_end == image.text_end
__rodata_start == image.rodata_start
__rodata_end == image.rodata_end
__data_start == image.data_start
__data_end == image.data_end
__bss_start == image.bss_start
__bss_end == image.bss_end
__kernel_stack_start == image.kernel_stack_start
__kernel_stack_end == image.kernel_stack_end
__heap_start == image.heap_start
__heap_end == image.heap_end
__heap_size == AddrSub(image.heap_end, image.heap_start)

\* init_code_bytes(): where the embedded init program lies and how long it is
init_code_bytes == [ptr |-> image.init_text_ptr, len |-> image.init_text_len]

\* the address of fn usertrap, inside the kernel's .text
usertrap == image.usertrap

-----------------------------------------------------------------------------
(* mm/address_space.rs : VirtArea *)

PERM_RW == PTE_READABLE + PTE_WRITABLE
PERM_R == PTE_READABLE
PERM_RX == PTE_READABLE + PTE_EXECUTABLE
PERM_RWU == PTE_READABLE + PTE_WRITABLE + PTE_USER
PERM_RXU == PTE_READABLE + PTE_EXECUTABLE + PTE_USER

\* Ord for VirtAddr
AddrLess(a, b) == a.pn < b.pn \/ (a.pn = b.pn /\ a.off < b.off)

\* VirtArea::new
VirtArea_new(va_begin, va_end, perms) ==
    [virt_frame_range |-> [begin |-> align_down(va_begin).pn, end |-> align_up(va_end).pn],
     virt_frames |-> <<>>,
     permissions |-> perms,
     is_identically_mapped |-> FALSE,
     name |-> ""]

\* identically_mapped with the end rounded down instead of up: the last,
\* partly covered page of [pa_begin, pa_end) is left out
identically_mapped_floor(pa_begin, pa_end, perms) ==
    [virt_frame_range |-> [begin |-> Frame_from(align_down(pa_begin)),
                           end |-> Frame_from(align_down(pa_end))],
     virt_frames |-> <<>>,
     permissions |-> perms,
     is_identically_mapped |-> TRUE,
     name |-> ""]

\* VirtArea::identically_mapped
identically_mapped(pa_begin, pa_end, perms) ==
    [virt_frame_range |-> [begin |-> Frame_from(align_down(pa_begin)),
                           end |-> Frame_from(align_up(pa_end))],
     virt_frames |-> <<>>,
     permissions |-> perms,
     is_identically_mapped |-> TRUE,
     name |-> ""]

\* VirtArea::set_name
set_name(area, name) == [area EXCEPT !.name = name]

\* VirtArea::track_frame: BTreeMap::insert, the map kept as a sequence ordered by key
track_frame(area, va, guard) ==
    LET old == area.virt_frames
        keep == SelectSeq(old, LAMBDA e : e.va # va)
        before == SelectSeq(keep, LAMBDA e : AddrLess(e.va, va))
        after == SelectSeq(keep, LAMBDA e : AddrLess(va, e.va))
    IN  [area EXCEPT !.virt_frames = before \o <<[va |-> va, guard |-> guard]>> \o after]

ExclusivelyAllocated(frame) == [kind |-> "ExclusivelyAllocated", frame |-> frame]
PhysBorrowed(frame) == [kind |-> "PhysBorrowed", frame |-> frame]

\* make_trampoline borrowing the first frame of .text instead of the frame at
\* __trampoline_start
make_trampoline_at_text ==
    LET va_begin == TRAMPOLINE_BASE_VA
        area == VirtArea_new(va_begin, MAX_VA, PERM_RX)
    IN  set_name(track_frame(area, va_begin, PhysBorrowed(__text_start.pn)), "trampoline")

\* VirtArea::make_trampoline
make_trampoline ==
    LET va_begin == TRAMPOLINE_BASE_VA
        va_end == MAX_VA
        area == VirtArea_new(va_begin, va_end, PERM_RX)
        phys_frame == __trampoline_start.pn
    IN  set_name(track_frame(area, va_begin, PhysBorrowed(phys_frame)), "trampoline")

\* make_trapframe with the user bit in the permissions of the area
make_trapframe_user(k) ==
    LET va_begin == TRAPFRAME_BASE_USER_VA
        va_end == align_up(AddrAdd(TRAPFRAME_BASE_USER_VA, TRAPFRAME_SIZE))
        area == VirtArea_new(va_begin, va_end, PERM_RWU)
    IN  With(FrameGuard_allocate_zeroed(k), LAMBDA g :
            [k |-> g.k,
             area |-> set_name(track_frame(area, va_begin, ExclusivelyAllocated(g.frame)),
                               "trapframe"),
             pa |-> get_base_phys_addr(g.frame)])

\* VirtArea::make_trapframe
make_trapframe(k) ==
    LET va_begin == TRAPFRAME_BASE_USER_VA
        va_end == align_up(AddrAdd(TRAPFRAME_BASE_USER_VA, TRAPFRAME_SIZE))
        area == VirtArea_new(va_begin, va_end, PERM_RW)
    IN  With(FrameGuard_allocate_zeroed(k), LAMBDA g :
            [k |-> g.k,
             area |-> set_name(track_frame(area, va_begin, ExclusivelyAllocated(g.frame)),
                               "trapframe"),
             pa |-> get_base_phys_addr(g.frame)])

\* VirtArea::make_initial_user_stack
make_initial_user_stack(k, user_stack_va) ==
    LET va_begin == user_stack_va
        va_end == AddrAdd(user_stack_va, PAGE_SIZE)
        area == VirtArea_new(va_begin, va_end, PERM_RWU)
    IN  With(FrameGuard_allocate_zeroed(k), LAMBDA g :
            [k |-> g.k,
             area |-> set_name(track_frame(area, va_begin, ExclusivelyAllocated(g.frame)),
                               "user stack"),
             pa |-> get_base_phys_addr(g.frame)])

-----------------------------------------------------------------------------
(* mm/page_table.rs : mapping, verifying and locking whole areas *)

\* the loop `for v_frame in rng` of map_virt_area_allocate over the virtual
\* frames lo .. hi-1, in increasing order: the lower half of the range, then
\* the upper half from the state the lower half left
RECURSIVE map_identical_range(_, _, _, _, _)
map_identical_range(k, tbl, lo, hi, flags) ==
    IF hi - lo > 1
    THEN CHOOSE r \in {map_identical_range(a.k, a.pt, (lo + hi) \div 2, hi, flags) :
                       a \in {map_identical_range(k, tbl, lo, (lo + hi) \div 2, flags)}} : TRUE
    ELSE IF lo >= hi \/ ~k.ok THEN [k |-> k, pt |-> tbl]
    ELSE map_one_allocate(k, tbl, Addr(lo, 0), Addr(lo, 0), flags)

\* the loop `for (va, virt_frame_guard) in &virt_area.virt_frames`
RECURSIVE map_tracked_frames(_, _, _, _)
map_tracked_frames(k, tbl, frames, flags) ==
    IF frames = <<>> \/ ~k.ok THEN [k |-> k, pt |-> tbl]
    ELSE LET e == Head(frames)
             pa == get_base_phys_addr(e.guard.frame)
         IN  With(IF is_page_aligned(e.va) /\ is_page_aligned(pa)
                  THEN map_one_allocate(k, tbl, e.va, pa, flags)
                  ELSE [k |-> [k EXCEPT !.ok = FALSE], pt |-> tbl],
                  LAMBDA a : map_tracked_frames(a.k, a.pt, Tail(frames), flags))

\* map_virt_area_allocate mapping every area readable and writable, whatever
\* its permissions
map_virt_area_allocate_rw(k, tbl, virt_area) ==
    IF virt_area.is_identically_mapped
    THEN map_identical_range(k, tbl, virt_area.virt_frame_range.begin,
                             virt_area.virt_frame_range.end, PERM_RW)
    ELSE map_tracked_frames(k, tbl, virt_area.virt_frames, PERM_RW)

\* PageTableGuard::map_virt_area_allocate
map_virt_area_allocate(k, tbl, virt_area) ==
    IF virt_area.is_identically_mapped
    THEN map_identical_range(k, tbl, virt_area.virt_frame_range.begin,
                             virt_area.virt_frame_range.end, virt_area.permissions)
    ELSE map_tracked_frames(k, tbl, virt_area.virt_frames, virt_area.permissions)

\* the check verify_virt_area_mapping makes of one intended mapping va -> pa:
\* nothing when find returns None, both assert_eq otherwise
verify_one(m, tbl, va, pa, flags) ==
    With(find(m, tbl, va), LAMBDA r :
        r.some =>
            With(ReadWord(m, r.val.node, r.val.index), LAMBDA pte :
                /\ referencing_address(pte) = pa
                /\ pte_flags(pte) = FlagsOr(flags, PTE_VALID)))

\* PageTableGuard::verify_virt_area_mapping: TRUE when no assertion fails
verify_virt_area_mapping(m, tbl, virt_area) ==
    IF virt_area.is_identically_mapped
    THEN \A n \in virt_area.virt_frame_range.begin .. (virt_area.virt_frame_range.end - 1) :
             verify_one(m, tbl, Addr(n, 0), Addr(n, 0), virt_area.permissions)
    ELSE \A i \in DOMAIN virt_area.virt_frames :
             verify_one(m, tbl, virt_area.virt_frames[i].va,
                        get_base_phys_addr(virt_area.virt_frames[i].guard.frame),
                        virt_area.permissions)

\* an iteration that clears the writable flag whichever of the two it runs for
relock_node_clears(k, tbl, frame, set_w) ==
    With(find(k.mem, tbl, get_base_phys_addr(frame)), LAMBDA r :
        IF ~k.ok THEN k
        ELSE IF ~r.some THEN [k EXCEPT !.ok = FALSE]
        ELSE With(ReadWord(k.mem, r.val.node, r.val.index), LAMBDA pte :
                 [k EXCEPT !.mem =
                     WriteWord(@, r.val.node, r.val.index,
                               make_entry(referencing_address(pte),
                                          FlagsClear(pte_flags(pte), PTE_WRITABLE)))]))

\* one iteration of lock_table (set_w = FALSE) or unlock_table (set_w = TRUE)
relock_node(k, tbl, frame, set_w) ==
    With(find(k.mem, tbl, get_base_phys_addr(frame)), LAMBDA r :
        IF ~k.ok THEN k
        ELSE IF ~r.some THEN [k EXCEPT !.ok = FALSE]
        ELSE With(ReadWord(k.mem, r.val.node, r.val.index), LAMBDA pte :
                 [k EXCEPT !.mem =
                     WriteWord(@, r.val.node, r.val.index,
                               make_entry(referencing_address(pte),
                                          IF set_w THEN FlagsOr(pte_flags(pte), PTE_WRITABLE)
                                          ELSE FlagsClear(pte_flags(pte), PTE_WRITABLE)))]))

\* the loop `for frame in self.node_frames.iter()` over the frames lo .. hi
RECURSIVE relock_nodes_range(_, _, _, _, _, _)
relock_nodes_range(k, tbl, frames, set_w, lo, hi) ==
    IF lo < hi
    THEN CHOOSE r \in {relock_nodes_range(k1, tbl, frames, set_w, (lo + hi) \div 2 + 1, hi) :
                       k1 \in {relock_nodes_range(k, tbl, frames, set_w, lo, (lo + hi) \div 2)}} : TRUE
    ELSE IF lo > hi THEN k
    ELSE relock_node(k, tbl, frames[lo], set_w)

\* the loop over the node frames passing over the first of them, the root
relock_nodes_skips_root(k, tbl, frames, set_w) ==
    relock_nodes_range(k, tbl, frames, set_w, 2, Len(frames))

relock_nodes(k, tbl, frames, set_w) ==
    relock_nodes_range(k, tbl, frames, set_w, 1, Len(frames))

\* PageTableGuard::lock_table
lock_table(k, tbl) == relock_nodes(k, tbl, tbl.node_frames, FALSE)

\* PageTableGuard::unlock_table
unlock_table(k, tbl) == relock_nodes(k, tbl, tbl.node_frames, TRUE)

\* PageTableGuard::make_satp: SATP_SV39 | root >> 12, as its fields
make_satp(tbl) == [mode |-> 8, asid |-> 0, ppn |-> tbl.root_node.pn]

-----------------------------------------------------------------------------
(* mm/address_space.rs : AddrSpace *)

\* the loop `for virt_area in &virt_areas` over the areas lo .. hi of the
\* sequence, in order
RECURSIVE map_areas_range(_, _, _, _, _)
map_areas_range(k, tbl, areas, lo, hi) ==
    IF lo < hi
    THEN CHOOSE r \in {map_areas_range(a.k, a.pt, areas, (lo + hi) \div 2 + 1, hi) :
                       a \in {map_areas_range(k, tbl, areas, lo, (lo + hi) \div 2)}} : TRUE
    ELSE IF lo > hi \/ ~k.ok THEN [k |-> k, pt |-> tbl]
    ELSE map_virt_area_allocate(k, tbl, areas[lo])

map_areas(k, tbl, areas) == map_areas_range(k, tbl, areas, 1, Len(areas))

\* the areas make_kernel pushes, in its order
kernel_virt_areas ==
    << make_trampoline,
       set_name(identically_mapped(__heap_start, __heap_end, PERM_RW), "heap"),
       set_name(identically_mapped(__kernel_stack_start, __kernel_stack_end, PERM_RW),
                "kernel boot stack"),
       set_name(identically_mapped(__bss_start, __bss_end, PERM_RW), ".bss (+kernel heap)"),
       set_name(identically_mapped(__data_start, __data_end, PERM_RW), ".data"),
       set_name(identically_mapped(__rodata_start, __rodata_end, PERM_R), ".rodata"),
       set_name(identically_mapped(__text_start, __text_end, PERM_RX), ".text"),
       set_name(identically_mapped(VIRTIO_BASE, AddrAdd(VIRTIO_BASE, VIRTIO_SIZE), PERM_RW), "virtio"),
       set_name(identically_mapped(UART_BASE, AddrAdd(UART_BASE, UART_SIZE), PERM_RW), "uart"),
       set_name(identically_mapped(PLIC_BASE, AddrAdd(PLIC_BASE, PLIC_SIZE), PERM_RW), "plic"),
       set_name(identically_mapped(CLINT_BASE, AddrAdd(CLINT_BASE, CLINT_SIZE), PERM_RW), "clint") >>

\* AddrSpace::make_kernel
make_kernel(k) ==
    With(kernel_virt_areas, LAMBDA virt_areas :
    With(PageTableGuard_allocate(k), LAMBDA g :
    With(map_areas(g.k, g.pt, virt_areas), LAMBDA m :
        [k |-> m.k, space |-> [page_table |-> m.pt, virt_areas |-> virt_areas]])))

\* AddrSpace::make_init
make_init(k) ==
    LET init_text == init_code_bytes
        text_va_begin == TEXT_BASE_USER_VA
        text_va_end == align_up(AddrAdd(text_va_begin, init_text.len))
        user_stack_va == AddrAdd(text_va_end, PAGE_SIZE)
        text == set_name(track_frame(VirtArea_new(text_va_begin, text_va_end, PERM_RXU),
                                     text_va_begin, PhysBorrowed(Frame_from(init_text.ptr))),
                         ".text")
    IN  With(make_initial_user_stack(k, user_stack_va), LAMBDA stack :
        With(<<make_trampoline, stack.area, text>>, LAMBDA virt_areas :
        With(PageTableGuard_allocate(stack.k), LAMBDA g :
        With(map_areas(g.k, g.pt, virt_areas), LAMBDA m :
            [k |-> m.k, space |-> [page_table |-> m.pt, virt_areas |-> virt_areas]]))))

\* init_trapframe returning an address inside the trapframe page instead of
\* its base
init_trapframe_off(k, space) ==
    With(make_trapframe(k), LAMBDA t :
    With(map_virt_area_allocate(t.k, space.page_table, t.area), LAMBDA m :
        [k |-> m.k,
         space |-> [page_table |-> m.pt, virt_areas |-> Append(space.virt_areas, t.area)],
         pa |-> AddrAdd(t.pa, 8)]))

\* AddrSpace::init_trapframe
init_trapframe(k, space) ==
    With(make_trapframe(k), LAMBDA t :
    With(map_virt_area_allocate(t.k, space.page_table, t.area), LAMBDA m :
        [k |-> m.k,
         space |-> [page_table |-> m.pt, virt_areas |-> Append(space.virt_areas, t.area)],
         pa |-> t.pa]))

\* AddrSpace::verify: TRUE when no assertion fails
verify(m, space) ==
    \A i \in DOMAIN space.virt_areas :
        verify_virt_area_mapping(m, space.page_table, space.virt_areas[i])

\* AddrSpace::translate
AddrSpace_translate(m, space, va) == translate(m, space.page_table, va)

\* the frames the guards of a VirtArea own, in the order its map drops them
owned_frames(area) ==
    LET own == SelectSeq(area.virt_frames, LAMBDA e : e.guard.kind = "ExclusivelyAllocated")
    IN  [i \in DOMAIN own |-> own[i].guard.frame]

\* dropping a Vec<VirtArea>: the areas lo .. hi in order
RECURSIVE drop_areas_range(_, _, _, _)
drop_areas_range(k, areas, lo, hi) ==
    IF lo < hi
    THEN CHOOSE r \in {drop_areas_range(k1, areas, (lo + hi) \div 2 + 1, hi) :
                       k1 \in {drop_areas_range(k, areas, lo, (lo + hi) \div 2)}} : TRUE
    ELSE IF lo > hi THEN k
    ELSE drop_frames(k, owned_frames(areas[lo]))

drop_areas(k, areas) == drop_areas_range(k, areas, 1, Len(areas))

\* dropping an AddrSpace: its fields in declaration order, page_table then virt_areas
AddrSpace_drop(k, space) == drop_areas(PageTableGuard_drop(k, space.page_table), space.virt_areas)

\* the frames of the FrameGuards an AddrSpace holds, in the order its drop
\* releases them: the page table's node_frames, then the guards of its areas
RECURSIVE area_guards(_, _)
area_guards(areas, i) ==
    IF i > Len(areas) THEN <<>> ELSE owned_frames(areas[i]) \o area_guards(areas, i + 1)

space_guards(space) == space.page_table.node_frames \o area_guards(space.virt_areas, 1)

\* AddrSpace::load: the value satp holds afterwards
load(space) == [mode |-> 8, asid |-> 0, ppn |-> Frame_from(space.page_table.root_node)]

\* AddrSpace::lock_space (set_w = FALSE) and AddrSpace::unlock_space (set_w = TRUE):
\* build a second kernel space, load it, re-permission self's node pages, load
\* self, drop the second space.  Returns the memory state, what satp holds,
\* what satp held while lock_table / unlock_table wrote the entries
\* (written_under) and the frames the second space owned (another).
\* First the same with `another_space.load()` left out: the entries are
\* written under the address space the hart came in with
relock_space_unswitched(k, space, set_w, satp_before) ==
    With(make_kernel(k), LAMBDA another :
    With(relock_nodes(another.k, space.page_table, space.page_table.node_frames, set_w),
         LAMBDA locked :
        IF ~another.k.ok
        THEN [k |-> another.k, satp |-> satp_before, written_under |-> satp_before,
              another |-> <<>>]
        ELSE IF ~locked.ok
        THEN [k |-> locked, satp |-> satp_before, written_under |-> satp_before,
              another |-> space_guards(another.space)]
        ELSE [k |-> AddrSpace_drop(locked, another.space), satp |-> load(space),
              written_under |-> satp_before,
              another |-> space_guards(another.space)]))

relock_space(k, space, set_w, satp_before) ==
    With(make_kernel(k), LAMBDA another :
    With(relock_nodes(another.k, space.page_table, space.page_table.node_frames, set_w),
         LAMBDA locked :
        IF ~another.k.ok
        THEN [k |-> another.k, satp |-> satp_before, written_under |-> satp_before,
              another |-> <<>>]
        ELSE IF ~locked.ok
        THEN [k |-> locked, satp |-> load(another.space),
              written_under |-> load(another.space),
              another |-> space_guards(another.space)]
        ELSE [k |-> AddrSpace_drop(locked, another.space), satp |-> load(space),
              written_under |-> load(another.space),
              another |-> space_guards(another.space)]))

-----------------------------------------------------------------------------
(* allocator/identifier_allocator.rs and process/process.rs *)

N_PROCS == 128

\* IdentifierAllocator::new(capacity): the tracker holds the free identifiers
IdentifierAllocator_new(capacity) == 0..(capacity - 1)

\* the least element of a non-empty set of naturals (BTreeSet::pop_first)
first_of(S) == CHOOSE x \in S : \A y \in S : x <= y

\* IdentifierAllocator::allocate; ok = FALSE is the panic "no more ids available"
IdentifierAllocator_allocate(tracker) ==
    IF tracker = {} THEN [ok |-> FALSE, tracker |-> tracker, id |-> 0]
    ELSE [ok |-> TRUE, tracker |-> tracker \ {first_of(tracker)}, id |-> first_of(tracker)]

\* IdentifierAllocator::deallocate; ok = FALSE is the panic "deallocate twice!"
IdentifierAllocator_deallocate(tracker, id) ==
    [ok |-> id \notin tracker, tracker |-> tracker \cup {id}]

\* TrapContext::default()
TrapContext_default ==
    [user_regs |-> [tp |-> 0, a7 |-> 0],
     kernel_satp |-> [mode |-> 0, asid |-> 0, ppn |-> 0],
     kernel_sp |-> Addr(0, 0),
     kernel_hardid |-> 0,
     sepc |-> Addr(0, 0),
     trap_handler |-> Addr(0, 0)]

\* the TrapContext a physical address is transmuted to: what was written there,
\* or all zeroes in a frame nobody wrote since it was zeroed
trap_context_at(tc, pa) == IF pa \in DOMAIN tc THEN tc[pa] ELSE TrapContext_default

NoPcb == [exists |-> FALSE]

\* ProcessControlBlock::allocate
ProcessControlBlock_allocate(k, tracker) ==
    With(IdentifierAllocator_allocate(tracker), LAMBDA pid :
        IF ~pid.ok THEN [k |-> [k EXCEPT !.ok = FALSE], tracker |-> tracker, pcb |-> NoPcb]
        ELSE With(FrameGuard_allocate_zeroed(k), LAMBDA stack :
                 [k |-> stack.k,
                  tracker |-> pid.tracker,
                  pcb |-> [exists |-> TRUE,
                           pid_dropped |-> FALSE,
                           pid |-> pid.id,
                           kernel_stack |-> stack.frame,
                           inner |-> [trap_context |-> None,
                                      user_addr_space |-> None,
                                      status |-> "RUNNABLE"]]]))

\* set_kernel_stack that stores the base of the stack page, not its top
set_kernel_stack_base(ctx, base_addr) == [ctx EXCEPT !.kernel_sp = base_addr]

\* TrapContext::set_kernel_stack, called with a page-aligned base_addr
set_kernel_stack(ctx, base_addr) == [ctx EXCEPT !.kernel_sp = AddrAdd(base_addr, PAGE_SIZE)]

\* ProcessControlBlock::get_kernel_stack_phys_addr
get_kernel_stack_phys_addr(pcb) == get_base_phys_addr(pcb.kernel_stack)

\* PCBInner::first_execution_init.  The steps in order: init_trapframe,
\* initialise_trap_context, verify, the translate check, modify_trap_context;
\* a step that panics leaves what the earlier steps wrote.
first_execution_init(k, inner, kernel_stack_pa, kspace) ==
    IF ~inner.user_addr_space.some THEN [k |-> [k EXCEPT !.ok = FALSE], inner |-> inner]
    ELSE
    With(init_trapframe(k, inner.user_addr_space.val), LAMBDA it :
    With([inner EXCEPT !.trap_context = Some(it.pa), !.user_addr_space = Some(it.space)],
         LAMBDA inner1 :
    With(AddrSpace_translate(it.k.mem, it.space, TRAPFRAME_BASE_USER_VA), LAMBDA tr :
        IF ~it.k.ok THEN [k |-> it.k, inner |-> inner]
        ELSE IF ~verify(it.k.mem, it.space) THEN [k |-> [it.k EXCEPT !.ok = FALSE], inner |-> inner1]
        ELSE IF ~tr.some \/ tr.val.pa # it.pa
        THEN [k |-> [it.k EXCEPT !.ok = FALSE], inner |-> inner1]
        ELSE IF ~is_page_aligned(kernel_stack_pa)
        THEN [k |-> [it.k EXCEPT !.ok = FALSE], inner |-> inner1]
        ELSE [k |-> [it.k EXCEPT !.tc =
                        [a \in DOMAIN @ \cup {it.pa} |->
                            IF a = it.pa
                            THEN [set_kernel_stack(trap_context_at(it.k.tc, it.pa),
                                                   kernel_stack_pa) EXCEPT
                                     !.trap_handler = usertrap,
                                     !.sepc = TEXT_BASE_USER_VA,
                                     !.kernel_satp = make_satp(kspace.page_table)]
                            ELSE @[a]]],
              inner |-> inner1])))

\* dropping a PCBInner: trap_context owns nothing, user_addr_space is dropped
PCBInner_drop(k, inner) ==
    IF inner.user_addr_space.some THEN AddrSpace_drop(k, inner.user_addr_space.val) ELSE k

\* Drop for PIDGuard: PID_ALLOCATOR.lock().deallocate(self.id), the lock released
\* when the call is over
PIDGuard_drop(tracker, pcb) == IdentifierAllocator_deallocate(tracker, pcb.pid)

\* dropping a ProcessControlBlock: its fields in declaration order.  pid comes
\* first (PIDGuard_drop); this is the rest, kernel_stack and then inner
ProcessControlBlock_drop(k, pcb) ==
    PCBInner_drop(FrameGuard_drop(k, pcb.kernel_stack), pcb.inner)

\* the frames of the FrameGuards a ProcessControlBlock holds, in the order its
\* drop releases them: kernel_stack, then those of inner.user_addr_space
pcb_guards(pcb) ==
    <<pcb.kernel_stack>>
        \o (IF pcb.inner.user_addr_space.some
            THEN space_guards(pcb.inner.user_addr_space.val) ELSE <<>>)

-----------------------------------------------------------------------------
(* common/resource_table.rs *)

\* FreeSlotsInner::new
FreeSlotsInner_new(capacity) == [free_ids |-> 0..(capacity - 1), capacity |-> capacity]

\* allocate_one taking the largest free id (pop_last) instead of the smallest
FreeSlotsInner_allocate_one_last(fs) ==
    LET grown == IF fs.free_ids = {}
                 THEN [free_ids |-> fs.capacity..(fs.capacity * 2 - 1),
                       capacity |-> fs.capacity * 2]
                 ELSE fs
    IN  IF grown.free_ids = {} THEN [ok |-> FALSE, fs |-> grown, id |-> 0]
        ELSE [ok |-> TRUE,
              fs |-> [grown EXCEPT !.free_ids =
                         @ \ {CHOOSE x \in @ : \A y \in @ : y <= x}],
              id |-> CHOOSE x \in grown.free_ids : \A y \in grown.free_ids : y <= x]

\* allocate_one that reads the smallest free id and leaves it in the set
\* (first() instead of pop_first())
FreeSlotsInner_allocate_one_keeps(fs) ==
    LET grown == IF fs.free_ids = {}
                 THEN [free_ids |-> fs.capacity..(fs.capacity * 2 - 1),
                       capacity |-> fs.capacity * 2]
                 ELSE fs
    IN  IF grown.free_ids = {} THEN [ok |-> FALSE, fs |-> grown, id |-> 0]
        ELSE [ok |-> TRUE, fs |-> grown, id |-> first_of(grown.free_ids)]

\* FreeSlotsInner::allocate_one; ok = FALSE is the failed assert!(!is_empty())
FreeSlotsInner_allocate_one(fs) ==
    LET grown == IF fs.free_ids = {}
                 THEN [free_ids |-> fs.capacity..(fs.capacity * 2 - 1),
                       capacity |-> fs.capacity * 2]
                 ELSE fs
    IN  IF grown.free_ids = {} THEN [ok |-> FALSE, fs |-> grown, id |-> 0]
        ELSE [ok |-> TRUE,
              fs |-> [grown EXCEPT !.free_ids = @ \ {first_of(@)}],
              id |-> first_of(grown.free_ids)]

\* FreeSlotsInner::return_one: assert!(self.free_ids.remove(&id)); BTreeSet::remove
\* takes id out of the set and tells whether it was there
FreeSlotsInner_return_one(fs, id) ==
    [ok |-> id \in fs.free_ids, fs |-> [fs EXCEPT !.free_ids = @ \ {id}]]

\* an empty HashMap
NoSlots == [i \in {} |-> None]

\* ResourceTable::new
ResourceTable_new(capacity) ==
    [active_slots |-> NoSlots, free_slots |-> FreeSlotsInner_new(capacity)]

\* HashMap::insert(id, slot)
SlotsInsert(slots, id, slot) ==
    [i \in DOMAIN slots \cup {id} |-> IF i = id THEN slot ELSE slots[i]]

\* HashMap::remove(id)
SlotsRemove(slots, id) == [i \in DOMAIN slots \ {id} |-> slots[i]]

\* ResourceTable::reserve_entry; ok = FALSE is a panic
ResourceTable_reserve_entry(t) ==
    LET a == FreeSlotsInner_allocate_one(t.free_slots)
    IN  IF ~a.ok THEN [ok |-> FALSE, t |-> [t EXCEPT !.free_slots = a.fs], id |-> a.id]
        ELSE [ok |-> a.id \notin DOMAIN t.active_slots,
              t |-> [active_slots |-> SlotsInsert(t.active_slots, a.id, None),
                     free_slots |-> a.fs],
              id |-> a.id]

\* ResourceTable::initialise_entry; ok = FALSE is the unwrap of a missing entry
ResourceTable_initialise_entry(t, id, data) ==
    IF id \notin DOMAIN t.active_slots THEN [ok |-> FALSE, t |-> t]
    ELSE [ok |-> TRUE, t |-> [t EXCEPT !.active_slots[id] = Some(data)]]

\* ResourceTable::get; ok = FALSE is the expect of a missing entry or the panic
\* on an uninitialised one
ResourceTable_get(t, id) ==
    IF id \notin DOMAIN t.active_slots THEN [ok |-> FALSE, data |-> None]
    ELSE [ok |-> t.active_slots[id].some, data |-> t.active_slots[id]]

\* ResourceTable::remove_entry; ok = FALSE is the failed assert of return_one
ResourceTable_remove_entry(t, id) ==
    LET r == FreeSlotsInner_return_one(t.free_slots, id)
    IN  [ok |-> r.ok,
         t |-> [active_slots |-> SlotsRemove(t.active_slots, id), free_slots |-> r.fs]]

-----------------------------------------------------------------------------
(* cpu.rs, process/manager.rs, trap/mod.rs, trap/syscall.rs,                  *)
(* trap/page_fault.rs and asm/trampoline.S : the trap path of one hart.       *)
(* A hart state st is [k, sscratch, stvec, sstatus, satp, mode]; st.k.ok =    *)
(* FALSE is the panic.                                                        *)

\* the hart this model runs: hart 0, the one process::init gives a process to
HartId == 0

\* symbols.rs: the trap vectors.  __uservec opens the trampoline section,
\* __userret follows it in the same page, __kernelvec lies in .text
__uservec == __trampoline_start
__userret == AddrAdd(__uservec, 144)
__kernelvec == AddrAdd(__text_start, 1024)

\* primitive_enum! Syscall: the numbers that name a system call
SyscallNumbers == 0..20

\* PageFlags::contains
flags_contains(flags, f) == (flags \div f) % 2 = 1

StPanic(st) == [st EXCEPT !.k.ok = FALSE]

\* the trap context of a PCBInner, as the kernel reads it through its pointer
context_of(k, inner) == trap_context_at(k.tc, inner.trap_context.val)

\* PCBInner::write_trap_context(f): the closure applied to the trap context;
\* the panic of get_context_mut_or_else_panic when there is none
write_trap_context(st, inner, F(_)) ==
    IF ~inner.trap_context.some THEN StPanic(st)
    ELSE With(F(context_of(st.k, inner)), LAMBDA ctx :
             [st EXCEPT !.k.tc =
                 [a \in DOMAIN @ \cup {inner.trap_context.val} |->
                     IF a = inner.trap_context.val THEN ctx ELSE @[a]]])

\* TrapContext::incr_user_space_pc
incr_user_space_pc(ctx, n) == [ctx EXCEPT !.sepc = AddrAdd(@, n)]

\* set_tp that stores the number after the hart's
set_tp_next(ctx, tp) == [ctx EXCEPT !.user_regs.tp = tp + 1]

\* TrapContext::set_tp
set_tp(ctx, tp) == [ctx EXCEPT !.user_regs.tp = tp]

\* TrapContext::get_syscall: the system call the saved a7 names, if any
get_syscall(ctx) ==
    IF ctx.user_regs.a7 \in SyscallNumbers THEN Some(ctx.user_regs.a7) ELSE None

\* SystemCallHandler::handle leaving the user PC on the ecall
SystemCallHandler_handle_no_incr(st, pcb) ==
    IF ~pcb.some THEN StPanic(st)
    ELSE IF ~pcb.val.inner.trap_context.some THEN StPanic(st)
    ELSE IF ~get_syscall(context_of(st.k, pcb.val.inner)).some THEN StPanic(st)
    ELSE st

\* SystemCallHandler::handle
SystemCallHandler_handle(st, pcb) ==
    IF ~pcb.some THEN StPanic(st)
    ELSE With(write_trap_context(st, pcb.val.inner, LAMBDA ctx : incr_user_space_pc(ctx, 4)),
              LAMBDA s1 :
             IF ~s1.k.ok THEN s1
             ELSE IF ~get_syscall(context_of(s1.k, pcb.val.inner)).some THEN StPanic(s1)
             ELSE s1)

\* InstructionPageFaultHandler::handle
InstructionPageFaultHandler_handle(st, pcb, stval) ==
    IF ~pcb.some THEN StPanic(st)
    ELSE IF ~pcb.val.inner.user_addr_space.some THEN StPanic(st)
    ELSE With(AddrSpace_translate(st.k.mem, pcb.val.inner.user_addr_space.val, stval),
              LAMBDA tr :
             IF ~tr.some THEN StPanic(st)
             ELSE IF ~flags_contains(tr.val.flags, PTE_EXECUTABLE) THEN StPanic(st)
             ELSE IF ~flags_contains(tr.val.flags, PTE_USER) THEN StPanic(st)
             ELSE st)

\* the tests of userret_on_trampoline: __userret and __uservec are where the
\* user space and the kernel space expect them
userret_tests(st, inner, kspace) ==
    LET addr == AddrAdd(TRAMPOLINE_BASE_VA, AddrSub(__userret, __uservec))
        user == AddrSpace_translate(st.k.mem, inner.user_addr_space.val, addr)
        kern == AddrSpace_translate(st.k.mem, kspace, addr)
        tramp == AddrSpace_translate(st.k.mem, inner.user_addr_space.val, TRAMPOLINE_BASE_VA)
    IN  /\ user.some
        /\ kern.some
        /\ user.val.pa = kern.val.pa
        /\ tramp.some
        /\ tramp.val.pa = __uservec

\* __userret(satp) in the trampoline: the user page table is loaded, the
\* registers are restored from the trapframe, sret goes where sstatus says
userret(st, satp_user) ==
    [st EXCEPT !.satp = satp_user,
               !.mode = st.sstatus.spp,
               !.sstatus = [sie |-> st.sstatus.spie, spie |-> TRUE, spp |-> "U"]]

\* no call userret_virtual(satp) has been made, no match on scause reached
NoHandover == [some |-> FALSE]

\* usertrapret and userret_on_trampoline; hartid is what arch::hart_id() reads.
\* The field handover of the result records the call userret_virtual(satp)
\* that ends it: the address called, the argument, and the hart's registers
\* and the saved tp at that moment
usertrapret(st, pcb, kspace, hartid) ==
    With([st EXCEPT !.stvec = TRAMPOLINE_BASE_VA], LAMBDA s0 :
        IF s0.sscratch # TRAPFRAME_BASE_USER_VA THEN StPanic(s0)
        ELSE
        With([s0 EXCEPT !.sstatus.spp = "U", !.sstatus.spie = TRUE], LAMBDA s1 :
            IF ~pcb.some THEN StPanic(s1)
            ELSE
            With(write_trap_context(s1, pcb.val.inner, LAMBDA ctx : set_tp(ctx, hartid)),
                 LAMBDA s2 :
                IF ~s2.k.ok THEN s2
                ELSE IF s2.satp # context_of(s2.k, pcb.val.inner).kernel_satp THEN StPanic(s2)
                ELSE IF ~pcb.val.inner.user_addr_space.some THEN StPanic(s2)
                ELSE
                With([s2 EXCEPT !.sstatus.sie = FALSE], LAMBDA s3 :
                    IF ~userret_tests(s3, pcb.val.inner, kspace) THEN StPanic(s3)
                    ELSE
                    With([s3 EXCEPT !.handover =
                            [some |-> TRUE,
                             addr |-> AddrAdd(TRAMPOLINE_BASE_VA, AddrSub(__userret, __uservec)),
                             satp |-> make_satp(pcb.val.inner.user_addr_space.val.page_table),
                             stvec |-> s3.stvec,
                             sstatus |-> s3.sstatus,
                             mode |-> s3.mode,
                             tp |-> context_of(s3.k, pcb.val.inner).user_regs.tp]],
                         LAMBDA s4 : userret(s4, s4.handover.satp))))))

\* the hart takes a trap in user mode: sstatus remembers where it came from
\* and the hart goes on in supervisor mode at stvec
take_trap(st) ==
    [st EXCEPT !.mode = "S",
               !.sstatus = [sie |-> FALSE, spie |-> st.sstatus.sie, spp |-> st.mode]]

\* __uservec in the trampoline: the user registers are saved into the trap
\* context the user space maps at sscratch, and the kernel's satp is loaded
\* from it.  A trap context that cannot be reached stops the hart.
uservec(st, inner, a7) ==
    IF ~inner.user_addr_space.some \/ ~inner.trap_context.some THEN StPanic(st)
    ELSE With(AddrSpace_translate(st.k.mem, inner.user_addr_space.val, st.sscratch),
              LAMBDA tr :
             IF ~tr.some \/ tr.val.pa # inner.trap_context.val THEN StPanic(st)
             ELSE With(write_trap_context(st, inner,
                                          LAMBDA ctx : [ctx EXCEPT !.user_regs.a7 = a7]),
                       LAMBDA s1 :
                      [s1 EXCEPT !.satp = context_of(s1.k, inner).kernel_satp]))

\* the causes scause reports to usertrap in this model
TrapCauses == {"SupervisorSoft", "UserEnvCall", "InstructionPageFault", "LoadPageFault"}

\* the hart's stvec and SIE as usertrap's match on scause finds them
at_dispatch(st) == [some |-> TRUE, stvec |-> st.stvec, sie |-> st.sstatus.sie]

\* usertrap without its stvec::write(__kernelvec)
usertrap_handler_keeps_stvec(st, pcb, kspace, hartid, scause, stval) ==
    With([st EXCEPT !.sstatus.sie = FALSE], LAMBDA sa :
    With([sa EXCEPT !.dispatch = at_dispatch(sa)], LAMBDA s0 :
    With(CASE scause = "UserEnvCall" -> SystemCallHandler_handle(s0, pcb)
           [] scause = "InstructionPageFault" ->
                  InstructionPageFaultHandler_handle(s0, pcb, stval)
           [] OTHER -> StPanic(s0),
         LAMBDA s1 :
        IF ~s1.k.ok THEN s1 ELSE usertrapret(s1, pcb, kspace, hartid))))

\* usertrap, up to and with its call of usertrapret.  The field dispatch of the
\* result records stvec and SIE at the match on scause
usertrap_handler(st, pcb, kspace, hartid, scause, stval) ==
    With([st EXCEPT !.sstatus.sie = FALSE, !.stvec = __kernelvec], LAMBDA sa :
    With([sa EXCEPT !.dispatch = at_dispatch(sa)], LAMBDA s0 :
    With(CASE scause = "UserEnvCall" -> SystemCallHandler_handle(s0, pcb)
           [] scause = "InstructionPageFault" ->
                  InstructionPageFaultHandler_handle(s0, pcb, stval)
           [] OTHER -> StPanic(s0),
         LAMBDA s1 :
        IF ~s1.k.ok THEN s1 ELSE usertrapret(s1, pcb, kspace, hartid))))

\* manager.rs: the capacity PROCESS_MANAGER's pcb_table starts with
INTIIAL_MAX_N_PROCS == 128

\* CPU::set_executing_process; ok = FALSE is the failed assert!(is_none())
set_executing_process(running, p) == [ok |-> ~running.some, running |-> Some(p)]

\* ProcessManager::pop_one: the PCB at the front of the ready queue, if any
pop_one(queue) ==
    IF queue = <<>> THEN [pcb |-> None, queue |-> queue]
    ELSE [pcb |-> Some(Head(queue)), queue |-> Tail(queue)]

\* ProcessManager::push_one; ok = FALSE is the panic of pcb_table.get or the
\* failed assert_eq!(pcb.pid, pid)
push_one(table, queue, pcbs, pid) ==
    With(ResourceTable_get(table, pid), LAMBDA got :
        IF ~got.ok THEN [ok |-> FALSE, queue |-> queue]
        ELSE IF pcbs[got.data.val].pid # pid THEN [ok |-> FALSE, queue |-> queue]
        ELSE [ok |-> TRUE, queue |-> Append(queue, got.data.val)])

\* exit_process marking the PCB of pid a ZOMBIE whatever its status is
exit_process_marks_zombie(table, queue, pcbs, pid) ==
    [table |-> table,
     queue |-> queue,
     pcbs |-> [p \in DOMAIN pcbs |->
                  IF pcbs[p].exists /\ pcbs[p].pid = pid
                  THEN [pcbs[p] EXCEPT !.inner.status = "ZOMBIE"]
                  ELSE pcbs[p]]]

\* ProcessManager::exit_process: its body is comments only
exit_process(table, queue, pcbs, pid) == [table |-> table, queue |-> queue, pcbs |-> pcbs]

\* ProcessManager::reap_process: its body is a comment only
reap_process(table, queue, pcbs, pid) == [table |-> table, queue |-> queue, pcbs |-> pcbs]

\* process::make_init
process_make_init(k, tracker, kspace) ==
    With(ProcessControlBlock_allocate(k, tracker), LAMBDA a :
        IF ~a.k.ok THEN a
        ELSE With(make_init(a.k), LAMBDA s :
            IF ~s.k.ok THEN [a EXCEPT !.k = s.k]
            ELSE With(first_execution_init(
                          s.k, [a.pcb.inner EXCEPT !.user_addr_space = Some(s.space)],
                          get_kernel_stack_phys_addr(a.pcb), kspace),
                      LAMBDA f :
                     [k |-> IF f.k.ok /\ a.pcb.pid # 0 THEN [f.k EXCEPT !.ok = FALSE] ELSE f.k,
                      tracker |-> a.tracker,
                      pcb |-> [a.pcb EXCEPT !.inner = f.inner]])))

\* process::make_initcode_uninitialised(pid): the PCB of the init program
make_initcode_uninitialised(k, tracker, kspace, pid) == process_make_init(k, tracker, kspace)

-----------------------------------------------------------------------------
(* Inputs of the specifications *)

\* virtual pages handed to map_one_allocate under SpecPT: the trampoline and the
\* trapframe (same level-0 node) and the user text base
VaSamples == {TRAMPOLINE_BASE_VA, TRAPFRAME_BASE_USER_VA, TEXT_BASE_USER_VA}

\* physical addresses handed to map_one_allocate: two pages and an unaligned address
PaSamples == {Addr(KERNEL_BASE_PN, 0), UART_BASE, Addr(KERNEL_BASE_PN + 1, 8)}

FlagSamples == {PTE_READABLE + PTE_EXECUTABLE, PTE_READABLE + PTE_WRITABLE + PTE_USER}

\* byte offsets inside a page at which translate is asked
OffsetSamples == {0, 1, 4, 8, 12, 2048, 4095}

\* what the heap window may hold before the kernel first writes it: zeroes, or
\* left-over words that read as valid PTEs
GarbageFrame ==
    [i \in 0..(WordsPerFrame - 1) |->
        IF i \in {0, 16, 128, 255, 511} THEN make_entry(FaBase, PTE_VALID + PTE_READABLE) ELSE 0]

-----------------------------------------------------------------------------
(* Specifications *)

vars == <<frame_allocator, mem, panicked, fa_live, fa_freed, pt, pt_mapped, pt_calls,
          image, trap_contexts, kernel_space, satp, pid_allocator, procs, last_op, n_ops,
          pcb_table, pcb_table_hist, harts, boot,
          sscratch, stvec, sstatus, mode, running_process, ready_queue, trap_entry>>

\* the variables of the resource table
rt_vars == <<pcb_table, pcb_table_hist, harts, boot>>

\* the variables of the trap path and the process manager, but for sscratch
tr_vars == <<stvec, sstatus, mode, running_process, ready_queue, trap_entry>>

\* the variables of the address spaces and processes
as_vars == <<image, trap_contexts, kernel_space, satp, pid_allocator, procs, last_op, n_ops>>

NoMapping == [v \in {} |-> 0]

NoneFreed == [addrs |-> {}, again |-> FALSE]

\* the page table harness is not in use
PtIdle == pt = NoGuard /\ pt_mapped = NoMapping /\ pt_calls = 0

\* satp before paging is turned on
SatpBare == [mode |-> 0, asid |-> 0, ppn |-> 0]

NoOp == [name |-> "boot", p |-> 0]

NoTableHist ==
    [cap |-> 0, reserved |-> <<>>, removed |-> FALSE, calls |-> 0,
     last |-> [name |-> "new", id |-> 0, initialised |-> FALSE]]

\* no hart calls into PROCESS_MANAGER
NoHarts == [lock |-> 0, pc |-> <<>>, id |-> <<>>, got |-> <<>>]

\* no hart runs kmain step by step
NoBoot == [pc |-> <<>>]

\* the resource table harness is not in use
RtIdle ==
    /\ pcb_table = ResourceTable_new(0)
    /\ pcb_table_hist = NoTableHist
    /\ harts = NoHarts
    /\ boot = NoBoot

NoTrap == [n |-> 0, cause |-> "none", some |-> FALSE, ctx |-> TrapContext_default,
           returned |-> FALSE]

\* the hart as it enters kmain: in supervisor mode, interrupts off, stvec and
\* sscratch not yet written; nothing queued, nothing running
TrIdle ==
    /\ sscratch = Addr(0, 0)
    /\ stvec = Addr(0, 0)
    /\ sstatus = [sie |-> FALSE, spie |-> FALSE, spp |-> "S"]
    /\ mode = "S"
    /\ running_process = None
    /\ ready_queue = <<>>
    /\ trap_entry = NoTrap

\* no address space and no process exists
AsIdle ==
    /\ trap_contexts = NoTrapContexts
    /\ kernel_space = None
    /\ satp = SatpBare
    /\ pid_allocator = IdentifierAllocator_new(N_PROCS)
    /\ procs = [p \in 1..MaxProcs |-> NoPcb]
    /\ last_op = NoOp
    /\ n_ops = 0

(* SpecFA: the frame allocator driven by allocate / deallocate *)

InitFA ==
    /\ frame_allocator = FrameAllocator_new(FaBase, FaPages)
    /\ mem = [f \in HeapFrames(frame_allocator) |-> EmptyFrame]
    /\ panicked = FALSE
    /\ fa_live = <<>>
    /\ fa_freed = NoneFreed
    /\ PtIdle
    /\ image = Image(0, 0, 0, 1000, FaBase.pn - KERNEL_BASE_PN)
    /\ AsIdle
    /\ TrIdle
    /\ RtIdle

\* a call allocate(k * PAGE_SIZE)
FaAllocate(k) ==
    /\ ~panicked
    /\ Len(fa_live) < MaxLive
    /\ \E r \in {allocate(frame_allocator, k * PAGE_SIZE)} :
       /\ frame_allocator' = r.fa
       /\ panicked' = ~r.ok
       /\ fa_live' = IF r.ok THEN Append(fa_live, [addr |-> r.ptr, n |-> k]) ELSE fa_live
    /\ fa_freed' = NoneFreed
    /\ UNCHANGED <<mem, pt, pt_mapped, pt_calls, as_vars, rt_vars, sscratch, tr_vars>>

\* a call deallocate(addr) on the address of the j-th live allocation
FaDeallocate(j) ==
    /\ ~panicked
    /\ j \in 1..Len(fa_live)
    /\ \E r \in {deallocate(frame_allocator, fa_live[j].addr)} :
       /\ frame_allocator' = r.fa
       /\ panicked' = ~r.ok
       /\ fa_live' = [x \in 1..(Len(fa_live) - 1) |-> IF x < j THEN fa_live[x] ELSE fa_live[x + 1]]
       /\ fa_freed' = [addrs |-> IF r.ok THEN fa_freed.addrs \cup {fa_live[j].addr}
                                 ELSE fa_freed.addrs,
                       again |-> FALSE]
    /\ UNCHANGED <<mem, pt, pt_mapped, pt_calls, as_vars, rt_vars, sscratch, tr_vars>>

\* a call deallocate(addr) on an address deallocate has returned from, with no
\* allocate since
FaDeallocateAgain(addr) ==
    /\ ~panicked
    /\ addr \in fa_freed.addrs
    /\ \E r \in {deallocate(frame_allocator, addr)} :
       /\ frame_allocator' = r.fa
       /\ panicked' = ~r.ok
    /\ fa_freed' = [fa_freed EXCEPT !.again = TRUE]
    /\ UNCHANGED <<mem, fa_live, pt, pt_mapped, pt_calls, as_vars, rt_vars, sscratch, tr_vars>>

NextFA ==
    \/ \E k \in 1..MaxRun : FaAllocate(k)
    \/ \E j \in 1..MaxLive : FaDeallocate(j)
    \/ \E addr \in fa_freed.addrs : FaDeallocateAgain(addr)

SpecFA == InitFA /\ [][NextFA]_vars

(* SpecPT: one PageTableGuard driven by allocate / map_one_allocate / drop *)

InitPT ==
    /\ frame_allocator = FrameAllocator_new(FaBase, PtHeapPages)
    /\ mem \in {[f \in HeapFrames(frame_allocator) |-> EmptyFrame],
                [f \in HeapFrames(frame_allocator) |-> GarbageFrame]}
    /\ panicked = FALSE
    /\ fa_live = <<>>
    /\ fa_freed = NoneFreed
    /\ PtIdle
    /\ image = Image(0, 0, 0, 1000, FaBase.pn - KERNEL_BASE_PN)
    /\ AsIdle
    /\ TrIdle
    /\ RtIdle

CurrentK == KState(mem, trap_contexts, frame_allocator)

\* PageTableGuard::allocate()
PtAllocate ==
    /\ ~panicked
    /\ pt = NoGuard
    /\ \E r \in {PageTableGuard_allocate(CurrentK)} :
       /\ mem' = r.k.mem
       /\ frame_allocator' = r.k.fa
       /\ panicked' = ~r.k.ok
       /\ pt' = IF r.k.ok THEN r.pt ELSE pt
    /\ UNCHANGED <<fa_live, fa_freed, pt_mapped, pt_calls, as_vars, rt_vars, sscratch, tr_vars>>

\* pt.map_one_allocate(va, pa, flags)
PtMapOneAllocate(va, pa, flags) ==
    /\ ~panicked
    /\ pt # NoGuard
    /\ pt_calls < MaxMaps
    /\ pt_calls' = pt_calls + 1
    /\ \E r \in {map_one_allocate(CurrentK, pt, va, pa, flags)} :
       /\ mem' = r.k.mem
       /\ frame_allocator' = r.k.fa
       /\ panicked' = ~r.k.ok
       /\ pt' = r.pt
       /\ pt_mapped' =
            IF r.k.ok
            THEN [v \in DOMAIN pt_mapped \cup {va} |->
                     IF v = va THEN [pa |-> pa, flags |-> flags] ELSE pt_mapped[v]]
            ELSE pt_mapped
    /\ last_op' = [name |-> "map_one_allocate", p |-> 0, va |-> va, pa |-> pa, flags |-> flags]
    /\ UNCHANGED <<fa_live, fa_freed, image, trap_contexts, kernel_space, satp, pid_allocator,
                   procs, n_ops, rt_vars, sscratch, tr_vars>>

\* the guard goes out of scope
PtDrop ==
    /\ ~panicked
    /\ pt # NoGuard
    /\ \E k \in {PageTableGuard_drop(CurrentK, pt)} :
       /\ mem' = k.mem
       /\ frame_allocator' = k.fa
       /\ panicked' = ~k.ok
    /\ pt' = NoGuard
    /\ pt_mapped' = NoMapping
    /\ UNCHANGED <<fa_live, fa_freed, pt_calls, as_vars, rt_vars, sscratch, tr_vars>>

\* the area of one page at va meant to be backed by the borrowed frame at pa
\* with permissions perms
OnePageArea(va, pa, perms) ==
    track_frame(VirtArea_new(va, AddrAdd(va, PAGE_SIZE), perms), va, PhysBorrowed(Frame_from(pa)))

\* pt.verify_virt_area_mapping(area) for an area of one page
PtVerify(va, pa, perms) ==
    /\ ~panicked
    /\ pt # NoGuard
    /\ is_page_aligned(pa)
    /\ panicked' = ~verify_virt_area_mapping(mem, pt, OnePageArea(va, pa, perms))
    /\ last_op' = [name |-> "verify_virt_area_mapping", p |-> 0,
                   va |-> va, pa |-> pa, flags |-> perms]
    /\ UNCHANGED <<mem, frame_allocator, pt, pt_mapped, pt_calls, fa_live, fa_freed, image,
                   trap_contexts, kernel_space, satp, pid_allocator, procs, n_ops, rt_vars,
                   sscratch, tr_vars>>

NextPT ==
    \/ PtAllocate
    \/ \E va \in VaSamples, pa \in PaSamples, flags \in FlagSamples : PtMapOneAllocate(va, pa, flags)
    \/ \E va \in VaSamples : PtVerify(va, Addr(KERNEL_BASE_PN, 0), PERM_RX)
    \/ PtDrop

SpecPT == InitPT /\ [][NextPT]_vars

(* SpecAS: boot (mm::init, mm::hart_init), lock_space / unlock_space of the   *)
(* kernel address space, and ProcessControlBlocks made, initialised, dropped  *)

\* the images the kernel is linked into: one with the trampoline in the first
\* page of .text, .text ending on a page boundary and an init program of one
\* page at the start of .rodata; one with the trampoline in the second page,
\* .text ending off a page boundary and an init program of two pages that
\* starts off a page boundary
Images == {Image(0, 0, 0, 1000, 0), Image(1, 1000, 64, PAGE_SIZE + 1, 0)}

InitAS ==
    /\ image \in Images
    /\ frame_allocator = FrameAllocator_new(__heap_start, __heap_size \div PAGE_SIZE)
    /\ mem = [f \in HeapFrames(frame_allocator) |-> EmptyFrame]
    /\ panicked = FALSE
    /\ fa_live = <<>>
    /\ fa_freed = NoneFreed
    /\ PtIdle
    /\ AsIdle
    /\ TrIdle
    /\ RtIdle

\* what every SpecAS action leaves alone
AsFrame == UNCHANGED <<fa_live, fa_freed, pt, pt_mapped, pt_calls, image, rt_vars, tr_vars>>

\* the memory state after an operation
SetK(k) ==
    /\ mem' = k.mem
    /\ trap_contexts' = k.tc
    /\ frame_allocator' = k.fa
    /\ panicked' = ~k.ok

\* one more operation, called op on slot p
Count(op, p) ==
    /\ n_ops < MaxOps
    /\ n_ops' = n_ops + 1
    /\ last_op' = [name |-> op, p |-> p]

\* mm::init: the first use of KERNEL_ADDRESS_SPACE runs make_kernel and verify
MmInit ==
    /\ ~panicked
    /\ kernel_space = None
    /\ \E r \in {make_kernel(CurrentK)} :
       /\ kernel_space' = IF r.k.ok THEN Some(r.space) ELSE None
       /\ SetK(IF r.k.ok /\ ~verify(r.k.mem, r.space) THEN [r.k EXCEPT !.ok = FALSE] ELSE r.k)
    /\ last_op' = [name |-> "make_kernel", p |-> 0]
    /\ UNCHANGED <<satp, pid_allocator, procs, n_ops, sscratch>>
    /\ AsFrame

\* what hart_init would write if it wrote the trampoline's address
hart_init_sscratch_trampoline == TRAMPOLINE_BASE_VA

\* the value mm::hart_init writes into sscratch
hart_init_sscratch == TRAPFRAME_BASE_USER_VA

\* mm::hart_init: KERNEL_ADDRESS_SPACE.read().load(), sscratch::write, and the
\* assert_eq! on what sscratch reads back
MmHartInit ==
    /\ ~panicked
    /\ kernel_space.some
    /\ satp = SatpBare
    /\ satp' = load(kernel_space.val)
    /\ sscratch' = hart_init_sscratch
    /\ panicked' = (sscratch' # TRAPFRAME_BASE_USER_VA)
    /\ last_op' = [name |-> "hart_init", p |-> 0]
    /\ UNCHANGED <<mem, trap_contexts, frame_allocator, kernel_space,
                   pid_allocator, procs, n_ops>>
    /\ AsFrame

\* KERNEL_ADDRESS_SPACE.write().lock_space()
KernelLockSpace ==
    /\ ~panicked
    /\ kernel_space.some
    /\ satp # SatpBare
    /\ n_ops < MaxOps
    /\ n_ops' = n_ops + 1
    /\ \E r \in {relock_space(CurrentK, kernel_space.val, FALSE, satp)} :
       /\ SetK(r.k)
       /\ satp' = r.satp
       /\ last_op' = [name |-> "lock_space", p |-> 0, satp_before |-> satp,
                      written_under |-> r.written_under, another |-> r.another,
                      mem_before |-> mem, fa_before |-> frame_allocator]
    /\ UNCHANGED <<kernel_space, pid_allocator, procs, sscratch>>
    /\ AsFrame

\* KERNEL_ADDRESS_SPACE.write().unlock_space()
KernelUnlockSpace ==
    /\ ~panicked
    /\ kernel_space.some
    /\ satp # SatpBare
    /\ n_ops < MaxOps
    /\ n_ops' = n_ops + 1
    /\ \E r \in {relock_space(CurrentK, kernel_space.val, TRUE, satp)} :
       /\ SetK(r.k)
       /\ satp' = r.satp
       /\ last_op' = [name |-> "unlock_space", p |-> 0, satp_before |-> satp,
                      written_under |-> r.written_under, another |-> r.another,
                      mem_before |-> mem, fa_before |-> frame_allocator,
                      after_lock |-> IF last_op.name = "lock_space"
                                     THEN [some |-> TRUE, mem |-> last_op.mem_before,
                                           fa |-> last_op.fa_before]
                                     ELSE [some |-> FALSE]]
    /\ UNCHANGED <<kernel_space, pid_allocator, procs, sscratch>>
    /\ AsFrame

\* ProcessControlBlock::allocate(), the PCB kept in slot p
PcbAllocate(p) ==
    /\ ~panicked
    /\ kernel_space.some
    /\ satp # SatpBare
    /\ ~procs[p].exists
    /\ Count("allocate", p)
    /\ \E r \in {ProcessControlBlock_allocate(CurrentK, pid_allocator)} :
       /\ SetK(r.k)
       /\ pid_allocator' = r.tracker
       /\ procs' = [procs EXCEPT ![p] = IF r.k.ok THEN r.pcb ELSE NoPcb]
    /\ UNCHANGED <<kernel_space, satp, sscratch>>
    /\ AsFrame

\* ProcessControlBlock::first_execution_init on the PCB in slot p
PcbFirstExecutionInit(p) ==
    /\ ~panicked
    /\ procs[p].exists
    /\ ~procs[p].pid_dropped
    /\ Count("first_execution_init", p)
    /\ \E r \in {first_execution_init(CurrentK, procs[p].inner,
                                      get_kernel_stack_phys_addr(procs[p]), kernel_space.val)} :
       /\ SetK(r.k)
       /\ procs' = [procs EXCEPT ![p].inner = r.inner]
    /\ UNCHANGED <<kernel_space, satp, pid_allocator, sscratch>>
    /\ AsFrame

\* process::make_init(), the PCB kept in slot p
ProcessMakeInit(p) ==
    /\ ~panicked
    /\ kernel_space.some
    /\ satp # SatpBare
    /\ ~procs[p].exists
    /\ Count("make_init", p)
    /\ \E a \in {ProcessControlBlock_allocate(CurrentK, pid_allocator)} :
       /\ pid_allocator' = a.tracker
       /\ IF ~a.k.ok THEN SetK(a.k) /\ procs' = procs
          ELSE \E s \in {make_init(a.k)} :
               IF ~s.k.ok THEN SetK(s.k) /\ procs' = [procs EXCEPT ![p] = a.pcb]
               ELSE \E f \in {first_execution_init(
                                  s.k, [a.pcb.inner EXCEPT !.user_addr_space = Some(s.space)],
                                  get_kernel_stack_phys_addr(a.pcb), kernel_space.val)} :
                    /\ SetK(IF f.k.ok /\ a.pcb.pid # 0 THEN [f.k EXCEPT !.ok = FALSE] ELSE f.k)
                    /\ procs' = [procs EXCEPT ![p] = [a.pcb EXCEPT !.inner = f.inner]]
    /\ UNCHANGED <<kernel_space, satp, sscratch>>
    /\ AsFrame

\* the PCB in slot p is dropped, first part: Drop for ProcessControlBlock (a
\* debug! line) and the drop of its first field, pid.  PID_ALLOCATOR is
\* unlocked again before the next field is dropped, so other harts' operations
\* may come in between
PcbDropPid(p) ==
    /\ ~panicked
    /\ procs[p].exists
    /\ ~procs[p].pid_dropped
    /\ Count("drop_pid", p)
    /\ \E r \in {PIDGuard_drop(pid_allocator, procs[p])} :
       /\ pid_allocator' = r.tracker
       /\ panicked' = ~r.ok
    /\ procs' = [procs EXCEPT ![p].pid_dropped = TRUE]
    /\ UNCHANGED <<mem, trap_contexts, frame_allocator, kernel_space, satp, sscratch>>
    /\ AsFrame

\* the PCB in slot p is dropped, second part: its fields kernel_stack and inner
PcbDrop(p) ==
    /\ ~panicked
    /\ procs[p].exists
    /\ procs[p].pid_dropped
    /\ last_op' = [name |-> "drop", p |-> p, guards |-> pcb_guards(procs[p])]
    /\ SetK(ProcessControlBlock_drop(CurrentK, procs[p]))
    /\ procs' = [procs EXCEPT ![p] = NoPcb]
    /\ UNCHANGED <<kernel_space, satp, sscratch, pid_allocator, n_ops>>
    /\ AsFrame

NextAS ==
    \/ MmInit
    \/ MmHartInit
    \/ KernelLockSpace
    \/ KernelUnlockSpace
    \/ \E p \in 1..MaxProcs : PcbAllocate(p)
    \/ \E p \in 1..MaxProcs : PcbFirstExecutionInit(p)
    \/ \E p \in 1..MaxProcs : ProcessMakeInit(p)
    \/ \E p \in 1..MaxProcs : PcbDropPid(p)
    \/ \E p \in 1..MaxProcs : PcbDrop(p)

SpecAS == InitAS /\ [][NextAS]_vars

(* SpecRT: one ResourceTable driven by reserve_entry / initialise_entry / get   *)
(* / remove_entry with arbitrary ids                                          *)

\* the ids the calls are made with: those of the table after it has doubled once
RtIds == 0..(2 * RtMaxCap - 1)

\* the resources put into the table
RtData == {"a", "b"}

InitRT ==
    /\ frame_allocator = FrameAllocator_new(FaBase, FaPages)
    /\ mem = [f \in HeapFrames(frame_allocator) |-> EmptyFrame]
    /\ panicked = FALSE
    /\ fa_live = <<>>
    /\ fa_freed = NoneFreed
    /\ PtIdle
    /\ image = Image(0, 0, 0, 1000, FaBase.pn - KERNEL_BASE_PN)
    /\ AsIdle
    /\ TrIdle
    /\ \E cap \in 1..RtMaxCap :
          /\ pcb_table = ResourceTable_new(cap)
          /\ pcb_table_hist = [NoTableHist EXCEPT !.cap = cap]
    /\ harts = NoHarts
    /\ boot = NoBoot

\* what every SpecRT action leaves alone
RtFrame == UNCHANGED <<frame_allocator, mem, fa_live, fa_freed, pt, pt_mapped, pt_calls, as_vars,
                        sscratch, tr_vars, harts, boot>>

\* one more call on the table
RtCall == ~panicked /\ pcb_table_hist.calls < RtMaxCalls

\* the slot of id holds a resource
RtInitialised(id) == id \in DOMAIN pcb_table.active_slots /\ pcb_table.active_slots[id].some

\* table.reserve_entry()
RtReserve ==
    /\ RtCall
    /\ \E r \in {ResourceTable_reserve_entry(pcb_table)} :
       /\ pcb_table' = r.t
       /\ panicked' = ~r.ok
       /\ pcb_table_hist' = [pcb_table_hist EXCEPT
                            !.calls = @ + 1,
                            !.reserved = IF r.ok THEN Append(@, r.id) ELSE @,
                            !.last = [name |-> "reserve_entry", id |-> r.id,
                                      initialised |-> FALSE]]
    /\ RtFrame

\* table.initialise_entry(id, data)
RtInitialise(id, data) ==
    /\ RtCall
    /\ \E r \in {ResourceTable_initialise_entry(pcb_table, id, data)} :
       /\ pcb_table' = r.t
       /\ panicked' = ~r.ok
    /\ pcb_table_hist' = [pcb_table_hist EXCEPT
                         !.calls = @ + 1,
                         !.last = [name |-> "initialise_entry", id |-> id,
                                   initialised |-> RtInitialised(id)]]
    /\ RtFrame

\* table.get(id)
RtGet(id) ==
    /\ RtCall
    /\ panicked' = ~ResourceTable_get(pcb_table, id).ok
    /\ pcb_table_hist' = [pcb_table_hist EXCEPT
                         !.calls = @ + 1,
                         !.last = [name |-> "get", id |-> id,
                                   initialised |-> RtInitialised(id)]]
    /\ UNCHANGED pcb_table
    /\ RtFrame

\* table.remove_entry(id)
RtRemove(id) ==
    /\ RtCall
    /\ \E r \in {ResourceTable_remove_entry(pcb_table, id)} :
       /\ pcb_table' = r.t
       /\ panicked' = ~r.ok
    /\ pcb_table_hist' = [pcb_table_hist EXCEPT
                         !.calls = @ + 1,
                         !.removed = TRUE,
                         !.last = [name |-> "remove_entry", id |-> id,
                                   initialised |-> RtInitialised(id)]]
    /\ RtFrame

NextRT ==
    \/ RtReserve
    \/ \E id \in RtIds, data \in RtData : RtInitialise(id, data)
    \/ \E id \in RtIds : RtGet(id)
    \/ \E id \in RtIds : RtRemove(id)

SpecRT == InitRT /\ [][NextRT]_vars

(* SpecTR: kmain on hart 0 (mm::init, mm::hart_init, trap::init_hart,         *)
(* process::init, lock_space, usertrapret) and then the traps the init        *)
(* process takes from user mode                                               *)

\* the system call numbers user code leaves in a7: three that name a system
\* call and one that names none
A7Samples == {0, 17, 20, 21}

\* the addresses stval reports: the first page of user text, its second page,
\* the trapframe, an address nothing is mapped at
StvalSamples == {TEXT_BASE_USER_VA, AddrAdd(TEXT_BASE_USER_VA, PAGE_SIZE),
                 TRAPFRAME_BASE_USER_VA, FromUsize(0)}

InitTR ==
    /\ image \in Images
    /\ frame_allocator = FrameAllocator_new(__heap_start, __heap_size \div PAGE_SIZE)
    /\ mem = [f \in HeapFrames(frame_allocator) |-> EmptyFrame]
    /\ panicked = FALSE
    /\ fa_live = <<>>
    /\ fa_freed = NoneFreed
    /\ PtIdle
    /\ AsIdle
    /\ TrIdle
    /\ pcb_table = ResourceTable_new(INTIIAL_MAX_N_PROCS)
    /\ pcb_table_hist = NoTableHist
    /\ harts = NoHarts
    /\ boot = NoBoot

\* what every SpecTR action of the trap path leaves alone
TrFrame == UNCHANGED <<fa_live, fa_freed, pt, pt_mapped, pt_calls, image, pcb_table_hist, harts, boot,
                       kernel_space, n_ops>>

\* the hart's registers and the kernel's memory as one hart state
HartState ==
    [k |-> CurrentK, sscratch |-> sscratch, stvec |-> stvec, sstatus |-> sstatus,
     satp |-> satp, mode |-> mode, handover |-> NoHandover, dispatch |-> NoHandover]

\* the hart state after an operation
SetHart(st) ==
    /\ SetK(st.k)
    /\ sscratch' = st.sscratch
    /\ stvec' = st.stvec
    /\ sstatus' = st.sstatus
    /\ satp' = st.satp
    /\ mode' = st.mode

\* CPUS[hart].running_process as cpu::current_process() returns it
current_process == IF running_process.some THEN Some(procs[running_process.val]) ELSE None

\* kmain: mm::init
KmainMmInit == last_op.name = "boot" /\ MmInit

\* kmain: mm::hart_init
KmainMmHartInit == last_op.name = "make_kernel" /\ MmHartInit

\* kmain: trap::init_hart: stvec::write(__kernelvec)
KmainTrapInitHart ==
    /\ ~panicked
    /\ last_op.name = "hart_init"
    /\ stvec' = __kernelvec
    /\ last_op' = [name |-> "trap_init_hart", p |-> 0]
    /\ UNCHANGED <<mem, trap_contexts, frame_allocator, panicked, satp, sscratch, sstatus,
                   mode, pid_allocator, procs, pcb_table, running_process, ready_queue,
                   trap_entry>>
    /\ TrFrame

\* kmain: process::init: manager::init (create_initcode), then the init process
\* is popped from the ready queue and made the one hart 0 executes; its PCB is
\* kept in slot p
KmainProcessInit(p) ==
    /\ ~panicked
    /\ last_op.name = "trap_init_hart"
    /\ ~procs[p].exists
    /\ last_op' = [name |-> "process_init", p |-> p]
    /\ \E rs \in {ResourceTable_reserve_entry(pcb_table)} :
       IF ~rs.ok
       THEN /\ panicked' = TRUE
            /\ pcb_table' = rs.t
            /\ UNCHANGED <<mem, trap_contexts, frame_allocator, pid_allocator, procs,
                           ready_queue, running_process>>
       ELSE \E m \in {make_initcode_uninitialised(CurrentK, pid_allocator,
                                                   kernel_space.val, rs.id)} :
            /\ pid_allocator' = m.tracker
            /\ IF ~m.k.ok
               THEN /\ SetK(m.k)
                    /\ pcb_table' = rs.t
                    /\ UNCHANGED <<procs, ready_queue, running_process>>
               ELSE \E ie \in {ResourceTable_initialise_entry(rs.t, rs.id, p)} :
                    \E popped \in {pop_one(Append(ready_queue, p))} :
                    \E run \in {set_executing_process(running_process, popped.pcb.val)} :
                    /\ SetK(IF ie.ok /\ run.ok THEN m.k ELSE [m.k EXCEPT !.ok = FALSE])
                    /\ procs' = [procs EXCEPT ![p] = m.pcb]
                    /\ pcb_table' = ie.t
                    /\ ready_queue' = IF ie.ok THEN popped.queue ELSE ready_queue
                    /\ running_process' = IF ie.ok /\ run.ok THEN run.running
                                          ELSE running_process
    /\ UNCHANGED <<satp, sscratch, stvec, sstatus, mode, trap_entry>>
    /\ TrFrame

\* kmain: KERNEL_ADDRESS_SPACE.write().lock_space()
KmainLockSpace == last_op.name = "process_init" /\ KernelLockSpace

\* kmain: usertrapret(), the first entry to user mode
KmainUserTrapRet ==
    /\ ~panicked
    /\ last_op.name = "lock_space"
    /\ \E st \in {usertrapret(HartState, current_process, kernel_space.val, HartId)} :
       /\ SetHart(st)
       /\ last_op' = [name |-> "usertrapret", p |-> 0, handover |-> st.handover]
    /\ UNCHANGED <<pid_allocator, procs, pcb_table, running_process, ready_queue, trap_entry>>
    /\ TrFrame

\* the hart traps from user mode with scause and stval, a7 holding what the
\* user code left there: the hardware's trap entry, __uservec, usertrap and
\* the usertrapret it ends with, __userret
UserTrap(scause, stval, a7) ==
    /\ ~panicked
    /\ mode = "U"
    /\ trap_entry.n < MaxTraps
    /\ \E s0 \in {take_trap(HartState)} :
       IF s0.stvec # TRAMPOLINE_BASE_VA \/ ~current_process.some
       THEN /\ SetHart(StPanic(s0))
            /\ last_op' = [name |-> "usertrap", p |-> running_process.val,
                           handover |-> NoHandover, dispatch |-> NoHandover]
            /\ trap_entry' = [trap_entry EXCEPT !.n = @ + 1, !.cause = scause,
                                                !.some = FALSE, !.returned = FALSE]
       ELSE \E s1 \in {uservec(s0, current_process.val.inner, a7)} :
            \E ctx \in {context_of(s1.k, current_process.val.inner)} :
            IF ~s1.k.ok \/ ctx.trap_handler # usertrap
            THEN /\ SetHart(StPanic(s1))
                 /\ last_op' = [name |-> "usertrap", p |-> running_process.val,
                                handover |-> NoHandover, dispatch |-> NoHandover]
                 /\ trap_entry' = [trap_entry EXCEPT !.n = @ + 1, !.cause = scause,
                                                     !.some = FALSE, !.returned = FALSE]
            ELSE \E s2 \in {usertrap_handler(s1, current_process, kernel_space.val,
                                             ctx.kernel_hardid, scause, stval)} :
                 /\ SetHart(s2)
                 /\ last_op' = [name |-> "usertrap", p |-> running_process.val,
                                handover |-> s2.handover, dispatch |-> s2.dispatch]
                 /\ trap_entry' = [n |-> trap_entry.n + 1, cause |-> scause, some |-> TRUE,
                                   ctx |-> ctx, returned |-> s2.k.ok]
    /\ UNCHANGED <<pid_allocator, procs, pcb_table, running_process, ready_queue>>
    /\ TrFrame

NextTR ==
    \/ KmainMmInit
    \/ KmainMmHartInit
    \/ KmainTrapInitHart
    \/ \E p \in {1} : KmainProcessInit(p)
    \/ KmainLockSpace
    \/ KmainUserTrapRet
    \/ \E scause \in TrapCauses, stval \in StvalSamples, a7 \in A7Samples :
          UserTrap(scause, stval, a7)

SpecTR == InitTR /\ [][NextTR]_vars

(* SpecPM: PROCESS_MANAGER and CPUS[0] driven by create_process, dispatch      *)
(* (pop_one and set_executing_process), take_executing_process, push_one,     *)
(* exit_process and reap_process                                              *)

\* the pids push_one, exit_process and reap_process are called with: those of
\* the PCBs that fit the slots, and one more
PmPids == 0..MaxProcs

InitPM ==
    /\ image = Image(0, 0, 0, 1000, 0)
    /\ frame_allocator = FrameAllocator_new(__heap_start, __heap_size \div PAGE_SIZE)
    /\ mem = [f \in HeapFrames(frame_allocator) |-> EmptyFrame]
    /\ panicked = FALSE
    /\ fa_live = <<>>
    /\ fa_freed = NoneFreed
    /\ PtIdle
    /\ trap_contexts = NoTrapContexts
    /\ kernel_space = None
    /\ satp = SatpBare
    /\ pid_allocator = IdentifierAllocator_new(N_PROCS)
    /\ procs = [p \in 1..MaxProcs |-> NoPcb]
    /\ last_op = [name |-> "boot", p |-> 0, done |-> {}]
    /\ n_ops = 0
    /\ TrIdle
    /\ pcb_table = ResourceTable_new(INTIIAL_MAX_N_PROCS)
    /\ pcb_table_hist = NoTableHist
    /\ harts = NoHarts
    /\ boot = NoBoot

\* what every SpecPM action leaves alone
PmFrame == UNCHANGED <<fa_live, fa_freed, pt, pt_mapped, pt_calls, image, pcb_table_hist, harts, boot,
                       kernel_space, satp, sscratch, stvec, sstatus, mode, trap_entry>>

\* one more operation of the process manager, called op on slot or pid p
PmCount(op, p) ==
    /\ ~panicked
    /\ n_ops < MaxPmOps
    /\ n_ops' = n_ops + 1
    /\ last_op' = [name |-> op, p |-> p, done |-> last_op.done \cup {op}]

\* PROCESS_MANAGER.create_process(), the PCB kept in slot p
PmCreateProcess(p) ==
    /\ ~procs[p].exists
    /\ \A q \in 1..(p - 1) : procs[q].exists
    /\ PmCount("create_process", p)
    /\ \E rs \in {ResourceTable_reserve_entry(pcb_table)} :
       IF ~rs.ok
       THEN /\ panicked' = TRUE
            /\ pcb_table' = rs.t
            /\ UNCHANGED <<mem, trap_contexts, frame_allocator, pid_allocator, procs,
                           ready_queue>>
       ELSE \E a \in {ProcessControlBlock_allocate(CurrentK, pid_allocator)} :
            \E ie \in {ResourceTable_initialise_entry(rs.t, rs.id, p)} :
            /\ pid_allocator' = a.tracker
            /\ SetK(IF ie.ok THEN a.k ELSE [a.k EXCEPT !.ok = FALSE])
            /\ procs' = IF a.k.ok THEN [procs EXCEPT ![p] = a.pcb] ELSE procs
            /\ pcb_table' = IF a.k.ok THEN ie.t ELSE rs.t
            /\ ready_queue' = IF a.k.ok /\ ie.ok THEN <<p>> \o ready_queue ELSE ready_queue
    /\ UNCHANGED running_process
    /\ PmFrame

\* dispatch as process::init does it:
\* CPUS[0].set_executing_process(PROCESS_MANAGER.pop_one().unwrap())
PmDispatch ==
    /\ PmCount("dispatch", 0)
    /\ \E popped \in {pop_one(ready_queue)} :
       IF ~popped.pcb.some
       THEN /\ panicked' = TRUE
            /\ UNCHANGED <<ready_queue, running_process>>
       ELSE \E run \in {set_executing_process(running_process, popped.pcb.val)} :
            /\ panicked' = ~run.ok
            /\ ready_queue' = popped.queue
            /\ running_process' = IF run.ok THEN run.running ELSE running_process
    /\ UNCHANGED <<mem, trap_contexts, frame_allocator, pid_allocator, procs, pcb_table>>
    /\ PmFrame

\* CPUS[0].take_executing_process()
PmTakeExecuting ==
    /\ running_process.some
    /\ PmCount("take_executing_process", running_process.val)
    /\ running_process' = None
    /\ UNCHANGED <<mem, trap_contexts, frame_allocator, panicked, pid_allocator, procs,
                   pcb_table, ready_queue>>
    /\ PmFrame

\* PROCESS_MANAGER.push_one(pid)
PmPushOne(pid) ==
    /\ PmCount("push_one", pid)
    /\ \E r \in {push_one(pcb_table, ready_queue, procs, pid)} :
       /\ panicked' = ~r.ok
       /\ ready_queue' = r.queue
    /\ UNCHANGED <<mem, trap_contexts, frame_allocator, pid_allocator, procs, pcb_table,
                   running_process>>
    /\ PmFrame

\* PROCESS_MANAGER.exit_process(pid)
PmExitProcess(pid) ==
    /\ PmCount("exit_process", pid)
    /\ \E r \in {exit_process(pcb_table, ready_queue, procs, pid)} :
       /\ procs' = r.pcbs
       /\ ready_queue' = r.queue
       /\ pcb_table' = r.table
    /\ UNCHANGED <<mem, trap_contexts, frame_allocator, panicked, pid_allocator,
                   running_process>>
    /\ PmFrame

\* PROCESS_MANAGER.reap_process(pid)
PmReapProcess(pid) ==
    /\ PmCount("reap_process", pid)
    /\ \E r \in {reap_process(pcb_table, ready_queue, procs, pid)} :
       /\ procs' = r.pcbs
       /\ ready_queue' = r.queue
       /\ pcb_table' = r.table
    /\ UNCHANGED <<mem, trap_contexts, frame_allocator, panicked, pid_allocator,
                   running_process>>
    /\ PmFrame

NextPM ==
    \/ \E p \in 1..MaxProcs : PmCreateProcess(p)
    \/ PmDispatch
    \/ PmTakeExecuting
    \/ \E pid \in PmPids : PmPushOne(pid)
    \/ \E pid \in PmPids : PmExitProcess(pid)
    \/ \E pid \in PmPids : PmReapProcess(pid)

SpecPM == InitPM /\ [][NextPM]_vars

(* SpecMH: several harts reserve entries of the process manager's table, each *)
(* call made through PROCESS_MANAGER.lock() as reserve_entry(&mut self) needs  *)

Harts == 1..MaxHarts

InitMH ==
    /\ frame_allocator = FrameAllocator_new(FaBase, FaPages)
    /\ mem = [f \in HeapFrames(frame_allocator) |-> EmptyFrame]
    /\ panicked = FALSE
    /\ fa_live = <<>>
    /\ fa_freed = NoneFreed
    /\ PtIdle
    /\ image = Image(0, 0, 0, 1000, FaBase.pn - KERNEL_BASE_PN)
    /\ AsIdle
    /\ TrIdle
    /\ \E cap \in 1..RtMaxCap :
          /\ pcb_table = ResourceTable_new(cap)
          /\ pcb_table_hist = [NoTableHist EXCEPT !.cap = cap]
    /\ harts = [lock |-> 0,
                pc |-> [h \in Harts |-> "idle"],
                id |-> [h \in Harts |-> 0],
                got |-> [h \in Harts |-> <<>>]]
    /\ boot = NoBoot

\* what every SpecMH action leaves alone
MhFrame == UNCHANGED <<frame_allocator, mem, fa_live, fa_freed, pt, pt_mapped, pt_calls, as_vars,
                        sscratch, tr_vars, boot>>

\* hart h takes the Mutex of PROCESS_MANAGER (it spins while another hart holds it)
MhLock(h) ==
    /\ ~panicked
    /\ harts.pc[h] = "idle"
    /\ harts.lock = 0
    /\ pcb_table_hist.calls < MaxReserves
    /\ harts' = [harts EXCEPT !.lock = h, !.pc[h] = "locked"]
    /\ pcb_table_hist' = [pcb_table_hist EXCEPT !.calls = @ + 1]
    /\ UNCHANGED <<pcb_table, panicked>>
    /\ MhFrame

\* reserve_entry, first block: free_slots.lock(), allocate_one(), the guard dropped
MhAllocateOne(h) ==
    /\ ~panicked
    /\ harts.pc[h] = "locked"
    /\ \E a \in {FreeSlotsInner_allocate_one(pcb_table.free_slots)} :
       /\ pcb_table' = [pcb_table EXCEPT !.free_slots = a.fs]
       /\ panicked' = ~a.ok
       /\ harts' = [harts EXCEPT !.pc[h] = "allocated", !.id[h] = a.id]
    /\ UNCHANGED pcb_table_hist
    /\ MhFrame

\* reserve_entry, second block: active_slots.write(), insert(id, None), the
\* panic on a collision, the id returned
MhInsert(h) ==
    /\ ~panicked
    /\ harts.pc[h] = "allocated"
    /\ pcb_table' = [pcb_table EXCEPT
                        !.active_slots = SlotsInsert(@, harts.id[h], None)]
    /\ panicked' = (harts.id[h] \in DOMAIN pcb_table.active_slots)
    /\ harts' = [harts EXCEPT !.pc[h] = "reserved",
                              !.got[h] = IF panicked' THEN @ ELSE Append(@, harts.id[h])]
    /\ pcb_table_hist' = [pcb_table_hist EXCEPT
                            !.reserved = IF panicked' THEN @ ELSE Append(@, harts.id[h]),
                            !.last = [name |-> "reserve_entry", id |-> harts.id[h],
                                      initialised |-> FALSE]]
    /\ MhFrame

\* the MutexGuard of PROCESS_MANAGER is dropped
MhUnlock(h) ==
    /\ ~panicked
    /\ harts.pc[h] = "reserved"
    /\ harts.lock = h
    /\ harts' = [harts EXCEPT !.lock = 0, !.pc[h] = "idle"]
    /\ UNCHANGED <<pcb_table, pcb_table_hist, panicked>>
    /\ MhFrame

NextMH ==
    \/ \E h \in Harts : MhLock(h)
    \/ \E h \in Harts : MhAllocateOne(h)
    \/ \E h \in Harts : MhInsert(h)
    \/ \E h \in Harts : MhUnlock(h)

SpecMH == InitMH /\ [][NextMH]_vars

(* SpecKM: kmain, usertrap and usertrapret run by several harts, one source    *)
(* statement at a time.  boot.pc[h] names the statement hart h executes next;  *)
(* address spaces are named, not built: satp is "bare", "kernel", "scratch"    *)
(* (the hart's own temporary kernel space) or "user"                           *)

\* the harts that boot; arch::hart_id() of hart h is h
BootHarts == 0..(MaxHarts - 1)

\* arch::intr_off: sstatus::clear_sie
intr_off(ss) == [ss EXCEPT !.sie = FALSE]

\* arch::intr_on: sstatus::set_sie
intr_on(ss) == [ss EXCEPT !.sie = TRUE]

\* the RwLock of KERNEL_ADDRESS_SPACE: the hart that holds a write guard, the
\* harts that hold read guards
RwLock_new == [writer |-> None, readers |-> {}]

\* read() returns a guard once no write guard exists
RwLock_read_ready(l) == ~l.writer.some

\* a write() that returns a guard whatever guards exist
RwLock_write_ready_always(l) == TRUE

\* write() returns a guard once no guard exists
RwLock_write_ready(l) == ~l.writer.some /\ l.readers = {}

InitKM ==
    /\ frame_allocator = FrameAllocator_new(FaBase, FaPages)
    /\ mem = [f \in HeapFrames(frame_allocator) |-> EmptyFrame]
    /\ panicked = FALSE
    /\ fa_live = <<>>
    /\ fa_freed = NoneFreed
    /\ PtIdle
    /\ image = Image(0, 0, 0, 1000, FaBase.pn - KERNEL_BASE_PN)
    /\ AsIdle
    /\ TrIdle
    /\ pcb_table = ResourceTable_new(0)
    /\ pcb_table_hist = NoTableHist
    /\ harts = NoHarts
    /\ boot = [pc |-> [h \in BootHarts |-> "kmain"],
               sstatus |-> [h \in BootHarts |-> [sie |-> FALSE, spie |-> FALSE, spp |-> "S"]],
               stvec |-> [h \in BootHarts |-> Addr(0, 0)],
               sscratch |-> [h \in BootHarts |-> Addr(0, 0)],
               satp |-> [h \in BootHarts |-> "bare"],
               mode |-> [h \in BootHarts |-> "S"],
               running_process |-> [h \in BootHarts |-> None],
               HART0_STARTED |-> FALSE,
               lock |-> RwLock_new,
               ready_queue |-> <<>>,
               locked |-> FALSE,
               scause |-> [h \in BootHarts |-> "none"],
               traps |-> [h \in BootHarts |-> 0]]

\* what every SpecKM action leaves alone
KmFrame == UNCHANGED <<frame_allocator, mem, panicked, fa_live, fa_freed, pt, pt_mapped, pt_calls,
                        as_vars, pcb_table, pcb_table_hist, harts, sscratch, tr_vars>>

\* hart h executes the statement named from and goes on as b says
KmStep(h, from, b) ==
    /\ boot.pc[h] = from
    /\ boot' = b
    /\ KmFrame

\* start.rs:62: hart 0 initialises the kernel, the other harts wait for it
KmEnter(h) ==
    KmStep(h, "kmain", [boot EXCEPT !.pc[h] = IF h = 0 THEN "mm::init" ELSE "wait"])

\* start.rs:67: mm::init on hart 0: the allocators, KERNEL_ADDRESS_SPACE made
KmMmInit(h) ==
    KmStep(h, "mm::init", [boot EXCEPT !.pc[h] = "mm::hart_init"])

\* start.rs:87-91: the loop leaves once the hart reads HART0_STARTED as true
KmWait(h) ==
    /\ boot.HART0_STARTED
    /\ KmStep(h, "wait", [boot EXCEPT !.pc[h] = "mm::hart_init"])

\* mm::hart_init: KERNEL_ADDRESS_SPACE.read()
KmHartInitRead(h) ==
    /\ RwLock_read_ready(boot.lock)
    /\ KmStep(h, "mm::hart_init", [boot EXCEPT !.pc[h] = "load",
                                               !.lock.readers = @ \cup {h}])

\* mm::hart_init: .load(), the read guard dropped, sscratch written
KmHartInitLoad(h) ==
    KmStep(h, "load", [boot EXCEPT !.pc[h] = "trap::init_hart",
                                   !.satp[h] = "kernel",
                                   !.lock.readers = @ \ {h},
                                   !.sscratch[h] = TRAPFRAME_BASE_USER_VA])

\* trap::init_hart: stvec::write(__kernelvec); hart 0 goes on with process::init
KmTrapInitHart(h) ==
    KmStep(h, "trap::init_hart",
           [boot EXCEPT !.pc[h] = IF h = 0 THEN "process::init" ELSE "intr_off",
                        !.stvec[h] = __kernelvec])

\* process::init on hart 0: manager::init creates the init process and queues
\* it, pop_one takes it from the queue and CPUS[0] gets it
KmProcessInit(h, p) ==
    \E popped \in {pop_one(Append(boot.ready_queue, p))} :
    \E run \in {set_executing_process(boot.running_process[0], popped.pcb.val)} :
    /\ RwLock_read_ready(boot.lock)
    /\ KmStep(h, "process::init",
              [boot EXCEPT !.pc[h] = IF run.ok THEN "HART0_STARTED" ELSE "panic",
                           !.ready_queue = popped.queue,
                           !.running_process[0] = IF run.ok THEN run.running ELSE @])

\* start.rs:83: HART0_STARTED = true
KmStarted(h) ==
    KmStep(h, "HART0_STARTED", [boot EXCEPT !.pc[h] = "intr_off", !.HART0_STARTED = TRUE])

\* start.rs:101: intr_off()
KmIntrOff(h) ==
    KmStep(h, "intr_off", [boot EXCEPT !.pc[h] = "write", !.sstatus[h] = intr_off(@)])

\* start.rs:102: KERNEL_ADDRESS_SPACE.write()
KmWrite(h) ==
    /\ RwLock_write_ready(boot.lock)
    /\ KmStep(h, "write", [boot EXCEPT !.pc[h] = "make_kernel", !.lock.writer = Some(h)])

\* lock_space: let another_space = Self::make_kernel()
KmMakeKernel(h) ==
    KmStep(h, "make_kernel", [boot EXCEPT !.pc[h] = "another_space.load"])

\* lock_space: another_space.load()
KmLoadAnother(h) ==
    KmStep(h, "another_space.load", [boot EXCEPT !.pc[h] = "lock_table",
                                                 !.satp[h] = "scratch"])

\* lock_space: self.page_table.lock_table()
KmLockTable(h) ==
    KmStep(h, "lock_table", [boot EXCEPT !.pc[h] = "self.load", !.locked = TRUE])

\* lock_space: self.load()
KmLoadSelf(h) ==
    KmStep(h, "self.load", [boot EXCEPT !.pc[h] = "drop", !.satp[h] = "kernel"])

\* lock_space: drop(another_space); the write guard is dropped as the
\* statement of start.rs:102 ends
KmDrop(h) ==
    KmStep(h, "drop", [boot EXCEPT !.pc[h] = "intr_on", !.lock.writer = None])

\* start.rs:103: intr_on()
KmIntrOn(h) ==
    KmStep(h, "intr_on", [boot EXCEPT !.pc[h] = "stvec::write", !.sstatus[h] = intr_on(@)])

\* usertrapret: stvec::write(TRAMPOLINE_BASE_VA)
KmStvecWrite(h) ==
    KmStep(h, "stvec::write", [boot EXCEPT !.pc[h] = "set_spp",
                                           !.stvec[h] = TRAMPOLINE_BASE_VA])

\* usertrapret: the assert on sscratch, sstatus::set_spp(User), sstatus::set_spie()
KmSetSpp(h) ==
    KmStep(h, "set_spp",
           IF boot.sscratch[h] # TRAPFRAME_BASE_USER_VA
           THEN [boot EXCEPT !.pc[h] = "panic"]
           ELSE [boot EXCEPT !.pc[h] = "current_process",
                             !.sstatus[h].spp = "U",
                             !.sstatus[h].spie = TRUE])

\* usertrapret: cpu::current_process().expect(..), set_tp, the assert on satp,
\* the user satp made
KmCurrentProcess(h) ==
    KmStep(h, "current_process",
           IF ~boot.running_process[h].some THEN [boot EXCEPT !.pc[h] = "no runable process"]
           ELSE IF boot.satp[h] # "kernel" THEN [boot EXCEPT !.pc[h] = "panic"]
           ELSE [boot EXCEPT !.pc[h] = "userret:intr_off"])

\* userret_on_trampoline: arch::intr_off()
KmUserretIntrOff(h) ==
    KmStep(h, "userret:intr_off", [boot EXCEPT !.pc[h] = "userret:read",
                                               !.sstatus[h] = intr_off(@)])

\* userret_on_trampoline, the tests: KERNEL_ADDRESS_SPACE.read()
KmUserretRead(h) ==
    /\ RwLock_read_ready(boot.lock)
    /\ KmStep(h, "userret:read", [boot EXCEPT !.pc[h] = "userret:translate",
                                              !.lock.readers = @ \cup {h}])

\* userret_on_trampoline, the tests: .translate(addr), the read guard dropped
KmUserretTranslate(h) ==
    KmStep(h, "userret:translate", [boot EXCEPT !.pc[h] = "userret_virtual",
                                                !.lock.readers = @ \ {h}])

\* userret_on_trampoline: userret_virtual(satp), __userret and its sret
KmUserretVirtual(h) ==
    \E st \in {userret([satp |-> boot.satp[h], mode |-> boot.mode[h],
                        sstatus |-> boot.sstatus[h]], "user")} :
    KmStep(h, "userret_virtual", [boot EXCEPT !.pc[h] = "user",
                                              !.satp[h] = st.satp,
                                              !.mode[h] = st.mode,
                                              !.sstatus[h] = st.sstatus])

\* the hart traps in user mode with scause: the hardware's trap entry and
\* __uservec, which loads the kernel's satp and jumps to usertrap
KmUserTrap(h, scause) ==
    \E st \in {take_trap([mode |-> boot.mode[h], sstatus |-> boot.sstatus[h]])} :
    /\ boot.traps[h] < MaxTraps
    /\ KmStep(h, "user", [boot EXCEPT !.pc[h] = "usertrap:intr_off",
                                      !.mode[h] = st.mode,
                                      !.sstatus[h] = st.sstatus,
                                      !.satp[h] = "kernel",
                                      !.scause[h] = scause,
                                      !.traps[h] = @ + 1])

\* usertrap: arch::intr_off()
KmUsertrapIntrOff(h) ==
    KmStep(h, "usertrap:intr_off", [boot EXCEPT !.pc[h] = "usertrap:stvec",
                                                !.sstatus[h] = intr_off(@)])

\* usertrap: stvec::write(__kernelvec)
KmUsertrapStvec(h) ==
    KmStep(h, "usertrap:stvec", [boot EXCEPT !.pc[h] = "usertrap:match",
                                             !.stvec[h] = __kernelvec])

\* usertrap: the match on scause; a handler that returns is followed by
\* usertrapret, handled tells whether the handler of the exception returns
KmUsertrapMatch(h, handled) ==
    KmStep(h, "usertrap:match",
           IF boot.scause[h] \in {"UserEnvCall", "InstructionPageFault"} /\ handled
           THEN [boot EXCEPT !.pc[h] = "stvec::write"]
           ELSE [boot EXCEPT !.pc[h] = "panic"])

NextKM ==
    \/ \E h \in BootHarts : KmEnter(h)
    \/ \E h \in BootHarts : KmMmInit(h)
    \/ \E h \in BootHarts : KmWait(h)
    \/ \E h \in BootHarts : KmHartInitRead(h)
    \/ \E h \in BootHarts : KmHartInitLoad(h)
    \/ \E h \in BootHarts : KmTrapInitHart(h)
    \/ \E h \in BootHarts : KmProcessInit(h, 1)
    \/ \E h \in BootHarts : KmStarted(h)
    \/ \E h \in BootHarts : KmIntrOff(h)
    \/ \E h \in BootHarts : KmWrite(h)
    \/ \E h \in BootHarts : KmMakeKernel(h)
    \/ \E h \in BootHarts : KmLoadAnother(h)
    \/ \E h \in BootHarts : KmLockTable(h)
    \/ \E h \in BootHarts : KmLoadSelf(h)
    \/ \E h \in BootHarts : KmDrop(h)
    \/ \E h \in BootHarts : KmIntrOn(h)
    \/ \E h \in BootHarts : KmStvecWrite(h)
    \/ \E h \in BootHarts : KmSetSpp(h)
    \/ \E h \in BootHarts : KmCurrentProcess(h)
    \/ \E h \in BootHarts : KmUserretIntrOff(h)
    \/ \E h \in BootHarts : KmUserretRead(h)
    \/ \E h \in BootHarts : KmUserretTranslate(h)
    \/ \E h \in BootHarts : KmUserretVirtual(h)
    \/ \E h \in BootHarts, scause \in TrapCauses : KmUserTrap(h, scause)
    \/ \E h \in BootHarts : KmUsertrapIntrOff(h)
    \/ \E h \in BootHarts : KmUsertrapStvec(h)
    \/ \E h \in BootHarts, handled \in BOOLEAN : KmUsertrapMatch(h, handled)

SpecKM == InitKM /\ [][NextKM]_vars

(* SpecFH: several harts allocate FrameGuards and drop them, each call to the  *)
(* allocator made through FRAME_ALLOCATOR.lock().  harts.got[h] holds the      *)
(* frames of the live FrameGuards of hart h, harts.id[h] the frame hart h has  *)
(* in hand between the allocator and a guard                                   *)

InitFH ==
    /\ frame_allocator = FrameAllocator_new(FaBase, FaPages)
    /\ mem = [f \in HeapFrames(frame_allocator) |-> EmptyFrame]
    /\ panicked = FALSE
    /\ fa_live = <<>>
    /\ fa_freed = NoneFreed
    /\ PtIdle
    /\ image = Image(0, 0, 0, 1000, FaBase.pn - KERNEL_BASE_PN)
    /\ AsIdle
    /\ TrIdle
    /\ pcb_table = ResourceTable_new(0)
    /\ pcb_table_hist = NoTableHist
    /\ harts = [lock |-> 0,
                pc |-> [h \in Harts |-> "idle"],
                id |-> [h \in Harts |-> 0],
                got |-> [h \in Harts |-> <<>>]]
    /\ boot = NoBoot

\* what every SpecFH action leaves alone
FhFrame == UNCHANGED <<fa_live, pt, pt_mapped, pt_calls, image, trap_contexts, kernel_space,
                        satp, pid_allocator, procs, pcb_table, pcb_table_hist, sscratch,
                        tr_vars, boot>>

\* the frames held by live FrameGuards or in hand on their way into one, with
\* the hart and the place that holds each
LiveFrameGuards ==
    UNION {{[hart |-> h, at |-> i, frame |-> harts.got[h][i]] : i \in DOMAIN harts.got[h]} :
               h \in Harts}

\* hart h calls FrameGuard::allocate_zeroed(), that is allocate_one_frame()
FhCallAllocate(h) ==
    /\ ~panicked
    /\ harts.pc[h] = "idle"
    /\ n_ops < MaxFrameOps
    /\ n_ops' = n_ops + 1
    /\ harts' = [harts EXCEPT !.pc[h] = "allocate_one_frame"]
    /\ UNCHANGED <<frame_allocator, mem, panicked, fa_freed, last_op>>
    /\ FhFrame

\* a FrameGuard of hart h is dropped: deallocate_one_frame(its frame) is called
FhDrop(h, i) ==
    /\ ~panicked
    /\ harts.pc[h] = "idle"
    /\ i \in DOMAIN harts.got[h]
    /\ n_ops < MaxFrameOps
    /\ n_ops' = n_ops + 1
    /\ harts' = [harts EXCEPT !.pc[h] = "deallocate_one_frame",
                              !.id[h] = harts.got[h][i],
                              !.got[h] = SubSeq(@, 1, i - 1) \o SubSeq(@, i + 1, Len(@))]
    /\ UNCHANGED <<frame_allocator, mem, panicked, fa_freed, last_op>>
    /\ FhFrame

\* FRAME_ALLOCATOR.lock(): hart h takes the Mutex (it spins while another hart
\* holds it)
FhLock(h) ==
    /\ ~panicked
    /\ harts.pc[h] \in {"allocate_one_frame", "deallocate_one_frame"}
    /\ harts.lock = 0
    /\ harts' = [harts EXCEPT !.lock = h,
                              !.pc[h] = IF harts.pc[h] = "allocate_one_frame"
                                        THEN "allocate" ELSE "deallocate"]
    /\ UNCHANGED <<frame_allocator, mem, panicked, fa_freed, last_op, n_ops>>
    /\ FhFrame

\* allocate_one_frame: .allocate(PAGE_SIZE) under the Mutex, the guard of the
\* Mutex dropped, the address returned
FhAllocate(h) ==
    /\ ~panicked
    /\ harts.pc[h] = "allocate"
    /\ harts.lock = h
    /\ \E r \in {allocate(frame_allocator, PAGE_SIZE)} :
       /\ frame_allocator' = r.fa
       /\ panicked' = ~r.ok
       /\ harts' = IF r.ok
                   THEN [harts EXCEPT !.lock = 0, !.pc[h] = "zero", !.id[h] = Frame_from(r.ptr)]
                   ELSE [harts EXCEPT !.pc[h] = "panic"]
       /\ last_op' = [name |-> "allocate_one_frame", p |-> h, frame |-> Frame_from(r.ptr),
                      ok |-> r.ok, again |-> r.ptr \in fa_freed.addrs,
                      allocated |->
                          \/ \E g \in LiveFrameGuards : g.frame = Frame_from(r.ptr)
                          \/ \E g \in Harts : /\ harts.pc[g] \in {"zero", "deallocate_one_frame",
                                                                  "deallocate"}
                                              /\ harts.id[g] = Frame_from(r.ptr)]
    /\ UNCHANGED <<mem, fa_freed, n_ops>>
    /\ FhFrame

\* FrameGuard::allocate_zeroed: frame.zero(), the guard made
FhZero(h) ==
    /\ ~panicked
    /\ harts.pc[h] = "zero"
    /\ mem' = [mem EXCEPT ![harts.id[h]] = EmptyFrame]
    /\ harts' = [harts EXCEPT !.pc[h] = "idle", !.got[h] = Append(@, harts.id[h])]
    /\ UNCHANGED <<frame_allocator, panicked, fa_freed, last_op, n_ops>>
    /\ FhFrame

\* deallocate_one_frame: .deallocate(pa) under the Mutex, the guard of the
\* Mutex dropped
FhDeallocate(h) ==
    /\ ~panicked
    /\ harts.pc[h] = "deallocate"
    /\ harts.lock = h
    /\ \E r \in {deallocate(frame_allocator, get_base_phys_addr(harts.id[h]))} :
       /\ frame_allocator' = r.fa
       /\ panicked' = ~r.ok
    /\ fa_freed' = [fa_freed EXCEPT !.addrs = @ \cup {get_base_phys_addr(harts.id[h])}]
    /\ harts' = [harts EXCEPT !.lock = 0, !.pc[h] = "idle"]
    /\ last_op' = [name |-> "deallocate_one_frame", p |-> h, frame |-> harts.id[h]]
    /\ UNCHANGED <<mem, n_ops>>
    /\ FhFrame

NextFH ==
    \/ \E h \in Harts : FhCallAllocate(h)
    \/ \E h \in Harts, i \in 1..MaxFrameOps : FhDrop(h, i)
    \/ \E h \in Harts : FhLock(h)
    \/ \E h \in Harts : FhAllocate(h)
    \/ \E h \in Harts : FhZero(h)
    \/ \E h \in Harts : FhDeallocate(h)

SpecFH == InitFH /\ [][NextFH]_vars

-----------------------------------------------------------------------------
(* Frame allocator properties *)

\* slots of the run a live allocation claims: n frames from the frame of its address
FaRun(a) ==
    LET b == AddrSub(a.addr, frame_allocator.base_addr) \div PAGE_SIZE IN b..(b + a.n - 1)

FaNonZero ==
    {i \in 0..(Len(frame_allocator.page_allocated) - 1) : frame_allocator.page_allocated[i + 1] # 0}

\* C1: after any sequence of allocate / deallocate calls, every non-zero slot
\* holds the length of the run it belongs to, and the runs of the live
\* allocations are pairwise disjoint and cover exactly the non-zero slots.
FA1_RunsPartitionNonZero ==
    ~panicked =>
        /\ \A x, y \in 1..Len(fa_live) : x # y => FaRun(fa_live[x]) \cap FaRun(fa_live[y]) = {}
        /\ UNION {FaRun(fa_live[x]) : x \in 1..Len(fa_live)} = FaNonZero
        /\ \A x \in 1..Len(fa_live) : \A i \in FaRun(fa_live[x]) :
               /\ i < Len(frame_allocator.page_allocated)
               /\ frame_allocator.page_allocated[i + 1] = fa_live[x].n

\* C2: for every k and every reachable bitmap, allocate(k * PAGE_SIZE) followed
\* by deallocate of the returned address leaves the bitmap as it was before.
FA2_AllocDeallocRoundTrip ==
    ~panicked =>
        \A k \in 1..MaxRun :
            LET r == allocate(frame_allocator, k * PAGE_SIZE) IN
            r.ok =>
                LET d == deallocate(r.fa, r.ptr) IN
                d.ok /\ d.fa = frame_allocator

-----------------------------------------------------------------------------
(* Page table properties *)

\* C3: every (va, pa, flags) with page-aligned va and pa that map_one_allocate
\* has mapped translates to Some((pa, flags | VALID)), right after the call and
\* after any later map_one_allocate calls, for as long as the guard lives.
PT1_MappedTranslates ==
    pt # NoGuard =>
        \A va \in DOMAIN pt_mapped :
            translate(mem, pt, va) =
                Some([pa |-> pt_mapped[va].pa, flags |-> FlagsOr(pt_mapped[va].flags, PTE_VALID)])

\* witness of C3: two pages are mapped, the second mapped after the first
PT1_Witness ==
    /\ pt # NoGuard
    /\ ~panicked
    /\ Cardinality(DOMAIN pt_mapped) >= 2

\* C4: for every va, aligned or not, whose page is mapped to physical page P,
\* translate(va) returns the address (P << 12) | (va mod 4096).
PT_TranslateKeepsOffset ==
    (pt # NoGuard /\ ~panicked) =>
        \A va \in DOMAIN pt_mapped : \A off \in OffsetSamples :
            LET r == translate(mem, pt, AddrAdd(va, off)) IN
            r.some /\ r.val.pa = Addr(pt_mapped[va].pa.pn, off)

\* C5: translate returns None for every virtual address that has no valid leaf
\* mapping, also when the level-0 node of the address exists.
PT_UnmappedTranslatesNone ==
    (pt # NoGuard /\ ~panicked) =>
        \A va \in VaSamples \ DOMAIN pt_mapped : \A off \in OffsetSamples :
            translate(mem, pt, AddrAdd(va, off)) = None

-----------------------------------------------------------------------------
(* Address space properties *)

\* the address spaces that exist: the kernel's and every PCB's user space
AllSpaces ==
    (IF kernel_space.some THEN {kernel_space.val} ELSE {})
    \cup {procs[p].inner.user_addr_space.val :
            p \in {q \in 1..MaxProcs : procs[q].exists /\ procs[q].inner.user_addr_space.some}}

\* the [a, b) and permissions the kernel's identity-mapped areas are built from
KernelIdentityRanges ==
    { [a |-> __heap_start, b |-> __heap_end, perms |-> PERM_RW],
      [a |-> __kernel_stack_start, b |-> __kernel_stack_end, perms |-> PERM_RW],
      [a |-> __bss_start, b |-> __bss_end, perms |-> PERM_RW],
      [a |-> __data_start, b |-> __data_end, perms |-> PERM_RW],
      [a |-> __rodata_start, b |-> __rodata_end, perms |-> PERM_R],
      [a |-> __text_start, b |-> __text_end, perms |-> PERM_RX],
      [a |-> VIRTIO_BASE, b |-> AddrAdd(VIRTIO_BASE, VIRTIO_SIZE), perms |-> PERM_RW],
      [a |-> UART_BASE, b |-> AddrAdd(UART_BASE, UART_SIZE), perms |-> PERM_RW],
      [a |-> PLIC_BASE, b |-> AddrAdd(PLIC_BASE, PLIC_SIZE), perms |-> PERM_RW],
      [a |-> CLINT_BASE, b |-> AddrAdd(CLINT_BASE, CLINT_SIZE), perms |-> PERM_RW] }

\* C6: right after make_kernel has mapped its identity areas (and after the
\* kernel space is loaded), every page-aligned p in [align_down(a), align_up(b))
\* of every identity area built from [a, b) with perms translates to
\* (p, perms | VALID); and the kernel space translates UART_BASE to
\* (UART_BASE, R|W|VALID) in every state.
AS_IdentityAreaTranslates ==
    kernel_space.some =>
        /\ last_op.name \in {"make_kernel", "hart_init"} =>
              \A r \in KernelIdentityRanges :
                  \A n \in align_down(r.a).pn .. (align_up(r.b).pn - 1) :
                      AddrSpace_translate(mem, kernel_space.val, Addr(n, 0)) =
                          Some([pa |-> Addr(n, 0), flags |-> FlagsOr(r.perms, PTE_VALID)])
        /\ AddrSpace_translate(mem, kernel_space.val, UART_BASE) =
              Some([pa |-> UART_BASE, flags |-> PTE_READABLE + PTE_WRITABLE + PTE_VALID])

\* witness of C6: the kernel space is built and loaded from an image whose
\* .text ends off a page boundary
AS_IdentityAreaWitness ==
    /\ kernel_space.some
    /\ ~panicked
    /\ last_op.name = "hart_init"
    /\ ~is_page_aligned(__text_end)

\* C7: verify() raises no assertion right after make_kernel(), and right after
\* make_init() followed by init_trapframe().
AS_VerifyPasses ==
    /\ (last_op.name = "make_kernel" /\ kernel_space.some) => verify(mem, kernel_space.val)
    /\ \A p \in 1..MaxProcs :
          (/\ last_op = [name |-> "make_init", p |-> p]
           /\ procs[p].exists
           /\ procs[p].inner.trap_context.some)
          => verify(mem, procs[p].inner.user_addr_space.val)

\* witness of C7: make_init and init_trapframe have run for an init program of
\* more than one page
AS_VerifyWitness ==
    /\ last_op.name = "make_init"
    /\ ~panicked
    /\ \E p \in 1..MaxProcs : procs[p].exists /\ procs[p].inner.trap_context.some
    /\ init_code_bytes.len > PAGE_SIZE

\* C8: invariant A1: in every address space, every page of every area's
\* virtual range is mapped with flags equal to the area's perms | VALID.
AS_A1_EveryPageMapped ==
    ~panicked =>
        \A space \in AllSpaces : \A i \in DOMAIN space.virt_areas :
            LET area == space.virt_areas[i] IN
            \A n \in area.virt_frame_range.begin .. (area.virt_frame_range.end - 1) :
                LET r == AddrSpace_translate(mem, space, Addr(n, 0))
                    pte == find(mem, space.page_table, Addr(n, 0))
                IN  /\ r.some
                    /\ is_valid(ReadWord(mem, pte.val.node, pte.val.index))
                    /\ r.val.flags = FlagsOr(area.permissions, PTE_VALID)

\* C9: every address space maps TRAMPOLINE_BASE_VA to the frame at
\* __trampoline_start with flags R|X|VALID.
AS_TrampolineMapped ==
    \A space \in AllSpaces :
        AddrSpace_translate(mem, space, TRAMPOLINE_BASE_VA) =
            Some([pa |-> __trampoline_start,
                  flags |-> PTE_READABLE + PTE_EXECUTABLE + PTE_VALID])

\* witness of C9: the kernel space and a user space exist, the trampoline not
\* being the first page of .text
AS_TrampolineWitness ==
    /\ ~panicked
    /\ kernel_space.some
    /\ \E p \in 1..MaxProcs : procs[p].exists /\ procs[p].inner.user_addr_space.some
    /\ __trampoline_start # __text_start

\* C10: whenever a PCB records a trap_context address, that address is page
\* aligned and is what TRAPFRAME_BASE_USER_VA translates to in the PCB's user
\* address space.
PCB_TrapContextMapped ==
    \A p \in 1..MaxProcs :
        (procs[p].exists /\ procs[p].inner.trap_context.some) =>
            LET pa == procs[p].inner.trap_context.val
                r == AddrSpace_translate(mem, procs[p].inner.user_addr_space.val,
                                         TRAPFRAME_BASE_USER_VA)
            IN  /\ is_page_aligned(pa)
                /\ r.some
                /\ r.val.pa = pa

\* witness of C10: a PCB that went through first_execution_init is still
\* alive after a later lock_space of the kernel space
PCB_TrapContextWitness ==
    /\ ~panicked
    /\ last_op.name = "lock_space"
    /\ \E p \in 1..MaxProcs : procs[p].exists /\ procs[p].inner.trap_context.some

-----------------------------------------------------------------------------
(* What the hart's Sv39 page walk sees of a page table *)

\* bit f (a power of two) of the PTE word is set
HasFlag(pte, f) == (pte \div f) % 2 = 1

\* the indices of the valid entries of the node in frame `node`
ValidEntries(m, node) == {i \in 0..(ENTRY_PER_TABLE - 1) : HasFlag(ReadWord(m, node, i), PTE_VALID)}

\* a valid entry is a leaf when one of R, W, X is set, a pointer to the next
\* level otherwise
IsLeafEntry(pte) ==
    HasFlag(pte, PTE_READABLE) \/ HasFlag(pte, PTE_WRITABLE) \/ HasFlag(pte, PTE_EXECUTABLE)

\* the leaf entries of the level-0 node in frame n0, which maps the virtual
\* pages from base on: the virtual page number each maps, its level, the PTE word
LeavesOfLevel0(m, n0, base) ==
    { [vpn |-> base + i0, level |-> 0, pte |-> ReadWord(m, n0, i0)] :
        i0 \in {i \in ValidEntries(m, n0) : IsLeafEntry(ReadWord(m, n0, i))} }

\* the leaf entries the walk reaches from the level-1 node in frame n1
LeavesOfLevel1(m, n1, base) ==
    UNION { IF IsLeafEntry(ReadWord(m, n1, i1))
            THEN {[vpn |-> base + i1 * ENTRY_PER_TABLE, level |-> 1,
                   pte |-> ReadWord(m, n1, i1)]}
            ELSE LeavesOfLevel0(m, referencing_frame(ReadWord(m, n1, i1)),
                                base + i1 * ENTRY_PER_TABLE)
          : i1 \in ValidEntries(m, n1) }

\* the leaf entries the walk reaches from the root
Sv39Leaves(m, root) ==
    UNION { IF IsLeafEntry(ReadWord(m, root, i2))
            THEN {[vpn |-> i2 * ENTRY_PER_TABLE * ENTRY_PER_TABLE, level |-> 2,
                   pte |-> ReadWord(m, root, i2)]}
            ELSE LeavesOfLevel1(m, referencing_frame(ReadWord(m, root, i2)),
                                i2 * ENTRY_PER_TABLE * ENTRY_PER_TABLE)
          : i2 \in ValidEntries(m, root) }

\* the user address spaces: the slots whose PCB holds one
UserSlots == {p \in 1..MaxProcs : procs[p].exists /\ procs[p].inner.user_addr_space.some}

UserSpace(p) == procs[p].inner.user_addr_space.val

\* the leaf entries of the user space of slot p that carry the USER bit
UserLeaves(p) ==
    {l \in Sv39Leaves(mem, Frame_from(UserSpace(p).page_table.root_node)) :
        HasFlag(l.pte, PTE_USER)}

\* the virtual pages of the user .text and of the user stack, as make_init lays
\* them out
UserTextPages ==
    TEXT_BASE_USER_VA.pn .. (align_up(AddrAdd(TEXT_BASE_USER_VA, init_code_bytes.len)).pn - 1)

UserStackPage == align_up(AddrAdd(TEXT_BASE_USER_VA, init_code_bytes.len)).pn + 1

\* the flags of the leaf entry mapping virtual page vpn in the user space of
\* slot p; 0 when no leaf maps it
LeafFlagsAt(p, vpn) ==
    LET ls == {l \in Sv39Leaves(mem, Frame_from(UserSpace(p).page_table.root_node)) :
                  l.vpn = vpn /\ l.level = 0}
    IN  IF ls = {} THEN 0 ELSE pte_flags((CHOOSE l \in ls : TRUE).pte)

\* the flags of the user space of slot p are as laid out: USER only on .text
\* pages (R|X|U) and on the stack page (R|W|U), the trapframe R|W and the
\* trampoline R|X, both without USER
UserFlagsLaidOut(p) ==
    /\ \A l \in UserLeaves(p) :
          /\ l.level = 0
          /\ \/ l.vpn \in UserTextPages /\ pte_flags(l.pte) = PERM_RXU + PTE_VALID
             \/ l.vpn = UserStackPage /\ pte_flags(l.pte) = PERM_RWU + PTE_VALID
    /\ LeafFlagsAt(p, TRAMPOLINE_BASE_VA.pn) = PERM_RX + PTE_VALID
    /\ procs[p].inner.trap_context.some =>
          LeafFlagsAt(p, TRAPFRAME_BASE_USER_VA.pn) = PERM_RW + PTE_VALID

\* the frames user mode reaches through the user space of slot p
UserReachableFrames(p) == {referencing_frame(l.pte) : l \in UserLeaves(p)}

\* frames the kernel owns: trapframes, kernel stacks, page-table nodes
KernelPrivateFrames ==
    {procs[q].inner.trap_context.val.pn :
        q \in {r \in 1..MaxProcs : procs[r].exists /\ procs[r].inner.trap_context.some}}
    \cup {procs[q].kernel_stack : q \in {r \in 1..MaxProcs : procs[r].exists}}
    \cup UNION {{space.page_table.node_frames[i] : i \in DOMAIN space.page_table.node_frames} :
                   space \in AllSpaces}

\* the frames of the linked kernel image, from .text up to the heap
KernelImageFrames == __text_start.pn .. (__heap_start.pn - 1)

\* the frames of the image that hold bytes of the embedded init program
InitProgramFrames ==
    Frame_from(init_code_bytes.ptr) ..
        Frame_from(AddrAdd(init_code_bytes.ptr, init_code_bytes.len - 1))

\* C11 as amended: in every user address space the USER bit is only on the
\* .text pages (R|X|U) and the stack page (R|W|U), the trapframe is R|W and
\* the trampoline R|X without USER, and user mode reaches no trapframe, kernel
\* stack or page-table node, and of the kernel image only frames that hold
\* the embedded init program.
AS_UserBitConfined ==
    \A p \in UserSlots :
        /\ UserFlagsLaidOut(p)
        /\ UserReachableFrames(p)
              \cap (KernelPrivateFrames \cup (KernelImageFrames \ InitProgramFrames)) = {}

\* witness of C11: a PCB went through make_init and first_execution_init, and
\* its user space has pages user mode reaches
AS_UserBitWitness ==
    /\ ~panicked
    /\ \E p \in UserSlots : procs[p].inner.trap_context.some /\ UserLeaves(p) # {}

\* C11 as stated: the same, with no frame of the kernel image reachable from
\* user mode at all.
AS_UserBitNoKernelFrame ==
    \A p \in UserSlots :
        /\ UserFlagsLaidOut(p)
        /\ UserReachableFrames(p) \cap (KernelPrivateFrames \cup KernelImageFrames) = {}

\* C12: once an init PCB is built and first_execution_init has run, for every
\* page-aligned offset k inside the page-aligned span of the embedded init
\* program, TEXT_BASE_USER_VA + k translates in the user address space to the
\* physical address of byte k of the program with flags R|X|U|VALID.
AS_InitTextTranslates ==
    ~panicked =>
        \A p \in UserSlots :
            procs[p].inner.trap_context.some =>
                \A n \in 0..(Cardinality(UserTextPages) - 1) :
                    AddrSpace_translate(mem, UserSpace(p),
                                        AddrAdd(TEXT_BASE_USER_VA, n * PAGE_SIZE)) =
                        Some([pa |-> AddrAdd(init_code_bytes.ptr, n * PAGE_SIZE),
                              flags |-> PERM_RXU + PTE_VALID])

-----------------------------------------------------------------------------
(* Resource table properties *)

\* C13: as long as remove_entry has not been called, the reserve_entry calls
\* on a fresh table of capacity cap return 0, 1, 2, ... in that order without a
\* panic; the capacity stays cap through the first cap of them, and the
\* (cap+1)-th returns cap and leaves the capacity 2 * cap.
RT1_FreshIdsInOrder ==
    (~pcb_table_hist.removed /\ pcb_table_hist.last.name = "reserve_entry") =>
        /\ ~panicked
        /\ \A i \in 1..Len(pcb_table_hist.reserved) :
              i <= pcb_table_hist.cap + 1 => pcb_table_hist.reserved[i] = i - 1
        /\ Len(pcb_table_hist.reserved) <= pcb_table_hist.cap =>
              pcb_table.free_slots.capacity = pcb_table_hist.cap
        /\ Len(pcb_table_hist.reserved) = pcb_table_hist.cap + 1 =>
              pcb_table.free_slots.capacity = 2 * pcb_table_hist.cap

\* witness of C13: the (cap+1)-th reserve_entry on a table of capacity two or
\* more has returned
RT1_Witness ==
    /\ ~panicked
    /\ ~pcb_table_hist.removed
    /\ pcb_table_hist.cap >= 2
    /\ pcb_table_hist.last.name = "reserve_entry"
    /\ Len(pcb_table_hist.reserved) = pcb_table_hist.cap + 1

\* C14: remove_entry(id) on an id that reserve_entry handed out and
\* initialise_entry filled returns without a panic, and afterwards id is in the
\* free-id set and is not a key of the slot map.
RT2_RoundTripFreesId ==
    (pcb_table_hist.last.name = "remove_entry" /\ pcb_table_hist.last.initialised) =>
        /\ ~panicked
        /\ pcb_table_hist.last.id \in pcb_table.free_slots.free_ids
        /\ pcb_table_hist.last.id \notin DOMAIN pcb_table.active_slots

\* C15: after any sequence of calls that returned, the free-id set and the
\* keys of the slot map are disjoint and together are exactly [0, capacity).
RT_FreeAndKeysPartition ==
    ~panicked =>
        /\ pcb_table.free_slots.free_ids \cap DOMAIN pcb_table.active_slots = {}
        /\ pcb_table.free_slots.free_ids \cup DOMAIN pcb_table.active_slots =
              0..(pcb_table.free_slots.capacity - 1)

-----------------------------------------------------------------------------
(* Trap path properties *)

\* hart_init has completed on the hart
HartInitDone == last_op.name \notin {"boot", "make_kernel"}

\* C16: from the completion of hart_init onward, and so at every entry to
\* usertrapret, sscratch holds TRAPFRAME_BASE_USER_VA whenever the hart
\* executes in supervisor mode
TR_SscratchHoldsTrapframe ==
    (HartInitDone /\ mode = "S") => sscratch = TRAPFRAME_BASE_USER_VA

\* the hart is in supervisor mode after it took two traps from user mode, the
\* first of which went through usertrapret back to user mode
TR_SscratchWitness ==
    /\ HartInitDone
    /\ mode = "S"
    /\ trap_entry.n >= 2
    /\ trap_entry.some
    /\ sscratch = TRAPFRAME_BASE_USER_VA

\* the last operation was an ecall that usertrap handled and usertrapret
\* returned from
EcallReturned ==
    /\ last_op.name = "usertrap"
    /\ trap_entry.cause = "UserEnvCall"
    /\ trap_entry.some
    /\ trap_entry.returned

\* C17: an ecall handled by usertrap and usertrapret leaves the trap context's
\* user PC 4 greater than at trap entry and stvec at TRAMPOLINE_BASE_VA when
\* the hart is back in user mode; kernel satp, kernel stack top and trap
\* handler of the trap context are what they were at trap entry
TR_EcallRoundTrip ==
    EcallReturned =>
        LET ctx == context_of(CurrentK, procs[last_op.p].inner)
        IN  /\ mode = "U"
            /\ ctx.sepc = AddrAdd(trap_entry.ctx.sepc, 4)
            /\ stvec = TRAMPOLINE_BASE_VA
            /\ ctx.kernel_satp = trap_entry.ctx.kernel_satp
            /\ ctx.kernel_sp = trap_entry.ctx.kernel_sp
            /\ ctx.trap_handler = trap_entry.ctx.trap_handler

\* the second ecall in a row has returned to user mode
TR_EcallWitness ==
    /\ EcallReturned
    /\ trap_entry.n = 2
    /\ mode = "U"
    /\ trap_entry.ctx.sepc = AddrAdd(TEXT_BASE_USER_VA, 4)

-----------------------------------------------------------------------------
(* lock_space properties *)

\* the kernel address space has just been locked
KernelLocked == last_op.name = "lock_space" /\ ~panicked /\ kernel_space.some

\* the leaf entry that maps the page of `frame` at its own address in the
\* kernel's page table is valid and readable, not writable, and refers to frame
NodePageReadOnly(frame) ==
    LET tr == AddrSpace_translate(mem, kernel_space.val, get_base_phys_addr(frame))
    IN  /\ tr.some
        /\ tr.val.pa = get_base_phys_addr(frame)
        /\ flags_contains(tr.val.flags, PTE_VALID)
        /\ flags_contains(tr.val.flags, PTE_READABLE)
        /\ ~flags_contains(tr.val.flags, PTE_WRITABLE)

\* C18: after lock_space on the kernel address space, every node page of its
\* page table, the root and the interior nodes, is identity-mapped by a leaf
\* entry with W clear and R, VALID and the page number as they were
AS_LockedNodesReadOnly ==
    KernelLocked =>
        /\ Frame_from(kernel_space.val.page_table.root_node)
              = kernel_space.val.page_table.node_frames[1]
        /\ \A i \in DOMAIN kernel_space.val.page_table.node_frames :
              NodePageReadOnly(kernel_space.val.page_table.node_frames[i])

\* the kernel address space is locked, its page table has a root, interior
\* nodes and leaf nodes, and the hart runs on it
AS_LockedNodesWitness ==
    /\ KernelLocked
    /\ Len(kernel_space.val.page_table.node_frames) >= 3
    /\ satp = load(kernel_space.val)
    /\ NodePageReadOnly(kernel_space.val.page_table.node_frames[1])

-----------------------------------------------------------------------------
(* Process manager properties *)

\* the transitions a PCB's status may make
StatusTransitions ==
    {<<"RUNNABLE", "RUNNING">>, <<"RUNNING", "RUNNABLE">>, <<"RUNNING", "ZOMBIE">>}

-----------------------------------------------------------------------------
(* Double deallocation *)

\* C20: deallocate on an address that is already free, a second deallocate of
\* the same address with no allocate in between, is a fatal error: it never
\* returns normally
FA_DoubleFreeFatal == fa_freed.again => panicked

-----------------------------------------------------------------------------
(* The kernel address space: what is mapped where *)

\* the leaf entries of the kernel's page table
KernelLeaves == Sv39Leaves(mem, Frame_from(kernel_space.val.page_table.root_node))

\* the virtual pages the kernel's page table maps to the frame `frame`
KernelPagesOf(frame) == {l.vpn : l \in {x \in KernelLeaves : referencing_frame(x.pte) = frame}}

\* mm::init has just built the kernel address space
KernelBuilt == last_op.name = "make_kernel" /\ ~panicked /\ kernel_space.some

\* C21: in the address space make_kernel builds no physical frame is the
\* target of two different mapped virtual pages; the trampoline's frame is
\* reached through TRAMPOLINE_BASE_VA only, not through the identity mapping
\* of .text as well
AS_KernelMapsEachFrameOnce ==
    KernelBuilt =>
        /\ Cardinality({referencing_frame(l.pte) : l \in KernelLeaves})
             = Cardinality(KernelLeaves)
        /\ KernelPagesOf(Frame_from(__trampoline_start)) = {TRAMPOLINE_BASE_VA.pn}

-----------------------------------------------------------------------------
(* First fit *)

\* the slots [i, i + n) lie in the bitmap pa and are all free
FreeRun(pa, i, n) == i + n <= Len(pa) /\ \A j \in i..(i + n - 1) : pa[j + 1] = 0

\* C22: an allocate of n pages that returns takes the lowest index i whose n
\* slots [i, i + n) are all free, marks exactly those slots with n, touching
\* no slot that was non-zero, and returns base_addr + i * PAGE_SIZE
FA_AllocateFirstFit ==
    [][(Len(fa_live') = Len(fa_live) + 1 /\ ~panicked') =>
          LET pa == frame_allocator.page_allocated
              got == fa_live'[Len(fa_live')]
              fits == {i \in 0..(Len(pa) - 1) : FreeRun(pa, i, got.n)}
          IN  /\ fits # {}
              /\ got.addr = AddrAdd(frame_allocator.base_addr, first_of(fits) * PAGE_SIZE)
              /\ frame_allocator'.page_allocated =
                    [s \in 1..Len(pa) |->
                        IF s - 1 >= first_of(fits) /\ s - 1 < first_of(fits) + got.n
                        THEN got.n ELSE pa[s]]]_vars

-----------------------------------------------------------------------------
(* map_one_allocate, call by call *)

\* the entries the walk for va reads in the table under test, level 2 down to
\* level 0; 0 (an invalid entry) below an invalid entry
WalkEntries(m, tbl, va) ==
    LET e2 == ReadWord(m, Frame_from(tbl.root_node), pte_index(va, 2))
        e1 == IF is_valid(e2) THEN ReadWord(m, referencing_frame(e2), pte_index(va, 1)) ELSE 0
        e0 == IF is_valid(e1) THEN ReadWord(m, referencing_frame(e1), pte_index(va, 0)) ELSE 0
    IN  [e2 |-> e2, e1 |-> e1, e0 |-> e0]

\* the number of interior entries, of level 2 and of level 1, the walk for va
\* finds invalid
MissingNodes(m, tbl, va) ==
    (IF is_valid(WalkEntries(m, tbl, va).e2) THEN 0 ELSE 1)
      + (IF is_valid(WalkEntries(m, tbl, va).e1) THEN 0 ELSE 1)

\* C23: map_one_allocate(va, pa, flags) on a va whose leaf PTE is valid is
\* fatal and leaves the leaf, and all of memory, as it was; otherwise, when it
\* returns, the leaf PTE is PPN(pa) | flags | VALID and one interior node was
\* allocated for each level-2 or level-1 entry that was invalid, and no other
PT_MapOneAllocateStep ==
    [][PtMapOneAllocate(last_op'.va, last_op'.pa, last_op'.flags) =>
          IF is_valid(WalkEntries(mem, pt, last_op'.va).e0)
          THEN panicked' /\ mem' = mem /\ pt' = pt
          ELSE ~panicked' =>
                 /\ WalkEntries(mem', pt', last_op'.va).e0
                      = make_entry(last_op'.pa, FlagsOr(last_op'.flags, PTE_VALID))
                 /\ Len(pt'.node_frames)
                      = Len(pt.node_frames) + MissingNodes(mem, pt, last_op'.va)]_vars

\* a second map_one_allocate on a va that an earlier call mapped has stopped
\* the kernel, and the entry the earlier call wrote is still there
PT_MapOneAllocateWitness ==
    /\ panicked
    /\ last_op.name = "map_one_allocate"
    /\ last_op.va \in DOMAIN pt_mapped
    /\ WalkEntries(mem, pt, last_op.va).e0
         = make_entry(pt_mapped[last_op.va].pa, FlagsOr(pt_mapped[last_op.va].flags, PTE_VALID))
    /\ pt_mapped[last_op.va].flags # last_op.flags

-----------------------------------------------------------------------------
(* verify_virt_area_mapping, call by call *)

\* the page table under test maps va to pa with flags perms | VALID
MappedAsIntended(va, pa, perms) ==
    LET e0 == WalkEntries(mem, pt, va).e0
    IN  /\ is_valid(e0)
        /\ referencing_address(e0) = pa
        /\ pte_flags(e0) = FlagsOr(perms, PTE_VALID)

\* C24: verify_virt_area_mapping fails fatally whenever an intended mapping of
\* the area is not in the page table, an interior level missing included, or is
\* there with another physical address or other flags than perms | VALID; it
\* returns only if every intended mapping is there and matches
PT_VerifyCatchesMismatch ==
    last_op.name = "verify_virt_area_mapping" =>
        (~panicked <=> MappedAsIntended(last_op.va, last_op.pa, last_op.flags))

-----------------------------------------------------------------------------
(* Frame ownership: guards, page-table nodes and the frame allocator *)

\* the elements of a sequence of frames
FrameSet(frames) == {frames[i] : i \in DOMAIN frames}

\* the frames the valid non-leaf entries of the table rooted at `root` refer to:
\* the level-1 nodes the root points to and the level-0 nodes those point to
InteriorNodes(m, root) ==
    LET below(n) == {referencing_frame(ReadWord(m, n, i)) :
                        i \in {j \in ValidEntries(m, n) : ~IsLeafEntry(ReadWord(m, n, j))}}
    IN  below(root) \cup UNION {below(n1) : n1 \in below(root)}

\* the address spaces alive: the kernel's and those of the PCBs
LiveSpaces ==
    (IF kernel_space.some THEN {kernel_space.val} ELSE {})
        \cup {UserSpace(p) : p \in UserSlots}

\* the frames an address space borrows: its PhysBorrowed guards
borrowed_frames(space) ==
    UNION {{e.guard.frame : e \in {x \in FrameSet(a.virt_frames) : x.guard.kind = "PhysBorrowed"}}
              : a \in FrameSet(space.virt_areas)}

\* the frames of all FrameGuards alive, PCB by PCB after the kernel space's
RECURSIVE procs_guards(_)
procs_guards(p) ==
    IF p > MaxProcs THEN <<>>
    ELSE (IF procs[p].exists THEN pcb_guards(procs[p]) ELSE <<>>) \o procs_guards(p + 1)

AllGuards ==
    (IF kernel_space.some THEN space_guards(kernel_space.val) ELSE <<>>) \o procs_guards(1)

\* the frames the frame allocator has given out and not got back
AllocatedFrames ==
    {f \in HeapFrames(frame_allocator) :
        frame_allocator.page_allocated[f - frame_allocator.base_addr.pn + 1] # 0}

\* a PCB that held a user address space has just been dropped
PcbWithSpaceDropped == last_op.name = "drop" /\ ~panicked /\ Len(last_op.guards) > 1

\* C25: every node page a valid non-leaf PTE refers to is owned by the
\* node_frames of its PageTableGuard; the frames given out by the allocator
\* are exactly the frames of the guards alive, each held by one guard, so that
\* after a PCB with its user address space is dropped each of its frames
\* (root, interior nodes, trapframe, user stack, kernel stack) was released
\* once and is free again; a borrowed frame (trampoline, init text) is held by
\* no guard and so never reaches deallocate
AS_FramesOwnedExactly ==
    ~panicked =>
        /\ \A s \in LiveSpaces :
              /\ InteriorNodes(mem, Frame_from(s.page_table.root_node))
                    \subseteq FrameSet(s.page_table.node_frames)
              /\ borrowed_frames(s) \cap (FrameSet(AllGuards) \cup HeapFrames(frame_allocator)) = {}
        /\ Cardinality(FrameSet(AllGuards)) = Len(AllGuards)
        /\ FrameSet(AllGuards) = AllocatedFrames
        /\ last_op.name = "drop" =>
              /\ Cardinality(FrameSet(last_op.guards)) = Len(last_op.guards)
              /\ FrameSet(last_op.guards) \cap AllocatedFrames = {}

\* a PCB made by make_init, with root, interior nodes, trapframe, user stack and
\* kernel stack, was dropped and the drop returned
AS_FramesOwnedWitness == PcbWithSpaceDropped /\ Len(last_op.guards) >= 6

-----------------------------------------------------------------------------
(* first_execution_init: what the trap context holds afterwards *)

\* the slots whose PCB first_execution_init has initialised: the operation that
\* just returned is make_init (which ends with first_execution_init) or
\* first_execution_init itself, on that slot
FirstExecutionInitDone ==
    {p \in UserSlots : /\ ~panicked
                       /\ last_op.name \in {"make_init", "first_execution_init"}
                       /\ last_op.p = p
                       /\ procs[p].inner.trap_context.some}

\* the trap context of the PCB in slot p
TrapContextOf(p) == trap_context_at(trap_contexts, procs[p].inner.trap_context.val)

\* C26: after first_execution_init(kstack_pa) the trap context holds the kernel
\* stack top kstack_pa + PAGE_SIZE, the address of usertrap as the trap handler,
\* TEXT_BASE_USER_VA as the user pc and the SATP value of the kernel address
\* space (the one the hart runs on); the saved user register tp is still zero
AS_FirstExecutionInitContext ==
    \A p \in FirstExecutionInitDone :
        /\ TrapContextOf(p).kernel_sp
              = AddrAdd(get_kernel_stack_phys_addr(procs[p]), PAGE_SIZE)
        /\ TrapContextOf(p).trap_handler = usertrap
        /\ TrapContextOf(p).sepc = TEXT_BASE_USER_VA
        /\ TrapContextOf(p).kernel_satp = make_satp(kernel_space.val.page_table)
        /\ TrapContextOf(p).kernel_satp = satp
        /\ TrapContextOf(p).user_regs.tp = 0

\* first_execution_init has returned, not as the first operation after boot,
\* for a PCB whose kernel stack is a frame of the heap
AS_FirstExecutionInitWitness ==
    /\ FirstExecutionInitDone # {}
    /\ n_ops >= 2
    /\ \A p \in FirstExecutionInitDone : TrapContextOf(p).kernel_sp # Addr(0, PAGE_SIZE)

-----------------------------------------------------------------------------
(* initialise_entry on a slot that holds a resource *)

\* C27: initialise_entry(id, value) returns only when slot id is reserved and
\* holds None; on a slot that already holds a resource it is fatal and the
\* resource stored before stays in place
RT_InitialiseOnlyOnce ==
    [][\A id \in RtIds, data \in RtData :
          RtInitialise(id, data) =>
              /\ ~panicked' => (id \in DOMAIN pcb_table.active_slots
                                   /\ ~pcb_table.active_slots[id].some)
              /\ RtInitialised(id) => (panicked' /\ pcb_table' = pcb_table)]_vars

-----------------------------------------------------------------------------
(* reserve_entry called from several harts *)

\* the ids reserve_entry has returned to some hart
MhReturned == UNION {FrameSet(harts.got[h]) : h \in Harts}

\* the ids a hart has taken from the free set and not yet inserted
MhInHand == {harts.id[h] : h \in {x \in Harts : harts.pc[x] = "allocated"}}

\* number of ids returned, hart by hart
RECURSIVE MhReturnedCount(_)
MhReturnedCount(h) == IF h > MaxHarts THEN 0 ELSE Len(harts.got[h]) + MhReturnedCount(h + 1)

\* no id was returned twice, to the same hart or to two harts, and at every
\* point of every call the ids below the capacity are the free ids, the ids in
\* hand and the keys of the table, each in one of the three
MhIdsPartition ==
    /\ Cardinality(MhReturned) = MhReturnedCount(1)
    /\ MhReturned \subseteq DOMAIN pcb_table.active_slots
    /\ ~panicked =>
          /\ pcb_table.free_slots.free_ids \cup MhInHand \cup DOMAIN pcb_table.active_slots
                = 0..(pcb_table.free_slots.capacity - 1)
          /\ pcb_table.free_slots.free_ids \cap MhInHand = {}
          /\ pcb_table.free_slots.free_ids \cap DOMAIN pcb_table.active_slots = {}
          /\ MhInHand \cap DOMAIN pcb_table.active_slots = {}

\* a step leaves the capacity alone unless it is an allocate_one that finds the
\* free set empty; that step doubles the capacity once and puts the ids
\* old capacity .. 2 * old capacity - 1 into the free set, the smallest of them
\* taken by the caller in the same step
MhDoublesOnExhaustion ==
    LET fs == pcb_table.free_slots
    IN  IF (\E h \in Harts : MhAllocateOne(h)) /\ fs.free_ids = {}
        THEN /\ fs.capacity' = 2 * fs.capacity
             /\ fs.free_ids' = (fs.capacity + 1)..(2 * fs.capacity - 1)
             /\ \E h \in Harts : harts.pc[h] = "locked" /\ harts.id'[h] = fs.capacity
        ELSE fs.capacity' = fs.capacity

\* C28: under any interleaving of reserve_entry calls of several harts no two
\* callers get the same id, and an exhausted free set doubles the capacity
\* once, the ids old capacity .. 2 * old capacity - 1 entering the free set in
\* the step that updates the capacity
MH_ReserveUniqueAndDoubling == []MhIdsPartition /\ [][MhDoublesOnExhaustion]_vars

\* both harts have reserved ids and the capacity has doubled since the table
\* was made
MH_ReserveWitness ==
    /\ ~panicked
    /\ \A h \in Harts : Len(harts.got[h]) >= 1
    /\ pcb_table.free_slots.capacity = 2 * pcb_table_hist.cap

-----------------------------------------------------------------------------
(* The ready queue as a FIFO *)

\* C29: the ready queue is first in, first out: a call that enqueues a PCB
\* (create_process, create_initcode, push_one) puts it behind every PCB already
\* queued and pop_one takes the PCB at the front, so the PCBs are popped in the
\* order in which they were enqueued
PM_ReadyQueueFifo ==
    [][/\ Len(ready_queue') > Len(ready_queue) =>
             /\ Len(ready_queue') = Len(ready_queue) + 1
             /\ SubSeq(ready_queue', 1, Len(ready_queue)) = ready_queue
       /\ Len(ready_queue') < Len(ready_queue) => ready_queue' = Tail(ready_queue)]_vars

-----------------------------------------------------------------------------
(* Drop order of a ProcessControlBlock *)

\* C30: when a PCB is dropped its inner state, with the user address space and
\* the frames it owns, is released before the process id goes back to the id
\* allocator: no id is free in PID_ALLOCATOR while frames of the PCB that held
\* it are still allocated, so no id is issued again to a second PCB meanwhile
AS_PidFreedAfterFrames ==
    \A p \in 1..MaxProcs :
        (procs[p].exists /\ FrameSet(pcb_guards(procs[p])) \cap AllocatedFrames # {}) =>
            /\ procs[p].pid \notin pid_allocator
            /\ \A q \in 1..MaxProcs : (q # p /\ procs[q].exists) => procs[q].pid # procs[p].pid

-----------------------------------------------------------------------------
(* usertrapret: the hart at the call of __userret *)

\* usertrapret has called __userret: kmain's usertrapret, or the one a user
\* trap's handling ends with
UserretCalled == last_op.name \in {"usertrapret", "usertrap"} /\ last_op.handover.some

\* C31: when usertrapret hands control to __userret on the trampoline, stvec is
\* TRAMPOLINE_BASE_VA, sstatus.SPP is User and sstatus.SPIE is 1, the tp saved
\* in the current process's trap context is the executing hart's id, the
\* address called is TRAMPOLINE_BASE_VA + (__userret - __uservec) and the
\* argument is the SATP value of the current process's user address space
TR_UserretHandover ==
    UserretCalled =>
        /\ last_op.handover.stvec = TRAMPOLINE_BASE_VA
        /\ last_op.handover.sstatus.spp = "U"
        /\ last_op.handover.sstatus.spie = TRUE
        /\ last_op.handover.mode = "S"
        /\ last_op.handover.tp = HartId
        /\ last_op.handover.addr = AddrAdd(TRAMPOLINE_BASE_VA, AddrSub(__userret, __uservec))
        /\ current_process.some
        /\ last_op.handover.satp
              = make_satp(current_process.val.inner.user_addr_space.val.page_table)
        /\ satp = last_op.handover.satp

\* __userret was called at the end of the handling of a system call
TR_UserretHandoverWitness ==
    UserretCalled /\ last_op.name = "usertrap" /\ trap_entry.cause = "UserEnvCall"

-----------------------------------------------------------------------------
(* usertrap: stvec from the trap to the return *)

\* usertrap has run for the trap the hart took last
UsertrapRan == last_op.name = "usertrap" /\ last_op.dispatch.some

\* C32: on every user trap usertrap has disabled supervisor interrupts and set
\* stvec to __kernelvec when it dispatches on scause; a dispatch path that does
\* not halt the kernel ends with usertrapret, which calls __userret; a path that
\* halts leaves stvec = __kernelvec; and whenever the hart is in user mode stvec
\* is TRAMPOLINE_BASE_VA
TR_StvecFollowsMode ==
    /\ mode = "U" => stvec = TRAMPOLINE_BASE_VA
    /\ UsertrapRan =>
          /\ last_op.dispatch.stvec = __kernelvec
          /\ ~last_op.dispatch.sie
          /\ ~panicked => (last_op.handover.some /\ mode = "U")
          /\ panicked => (stvec = __kernelvec /\ mode = "S" /\ ~sstatus.sie)

\* usertrap has handled the second or a later trap of the run and the hart is
\* back in user mode
TR_StvecFollowsModeWitness ==
    UsertrapRan /\ ~panicked /\ mode = "U" /\ trap_entry.n >= 2

-----------------------------------------------------------------------------
(* Instruction page faults of the init process *)

\* C33: every instruction page fault the init process takes in user mode ends
\* with the kernel halted, whatever is mapped at the faulting address; the hart
\* does not return to user mode
TR_InstructionPageFaultHalts ==
    (last_op.name = "usertrap" /\ trap_entry.cause = "InstructionPageFault") =>
        (panicked /\ mode = "S")

-----------------------------------------------------------------------------
(* lock_space / unlock_space: the address space the hart runs on *)

\* lock_space or unlock_space on the kernel address space has just returned
RelockReturned ==
    last_op.name \in {"lock_space", "unlock_space"} /\ ~panicked /\ kernel_space.some

\* C34: in lock_space and unlock_space the entries are written while the hart's
\* satp holds the temporary kernel address space, not the one being
\* re-permissioned; when the call returns satp holds self again and the frames
\* of the temporary address space are back with the allocator
AS_RelockUnderScratch ==
    RelockReturned =>
        /\ last_op.written_under # load(kernel_space.val)
        /\ last_op.written_under # last_op.satp_before
        /\ last_op.written_under.mode = 8
        /\ last_op.written_under.ppn = last_op.another[1]
        /\ satp = load(kernel_space.val)
        /\ FrameSet(last_op.another) # {}
        /\ FrameSet(last_op.another) \cap AllocatedFrames = {}

\* unlock_space has returned after a lock_space
AS_RelockUnderScratchWitness ==
    RelockReturned /\ last_op.name = "unlock_space" /\ n_ops >= 2

-----------------------------------------------------------------------------
(* lock_space then unlock_space as a round trip *)

\* unlock_space has returned, called right after a lock_space
UnlockedAfterLock == RelockReturned /\ last_op.name = "unlock_space" /\ last_op.after_lock.some

\* the frames that hold the entries of the kernel's page table
KernelNodeFrames == FrameSet(kernel_space.val.page_table.node_frames)

\* C35: lock_space followed by unlock_space on the kernel address space is a
\* round trip: every entry of its page table, PPN and flags, is what it was
\* before lock_space, and the frame allocator's bitmap is what it was then,
\* both temporary address spaces having released their frames
AS_LockUnlockRoundTrip ==
    UnlockedAfterLock =>
        /\ \A f \in KernelNodeFrames : mem[f] = last_op.after_lock.mem[f]
        /\ frame_allocator = last_op.after_lock.fa

\* the node pages of tbl are mapped writable in memory m
NodesWritable(m, tbl) ==
    \A i \in DOMAIN tbl.node_frames :
        With(find(m, tbl, get_base_phys_addr(tbl.node_frames[i])), LAMBDA r :
            r.some /\ FlagsContains(pte_flags(ReadWord(m, r.val.node, r.val.index)),
                                    PTE_WRITABLE))

\* C35, amended: lock_space followed by unlock_space on a kernel address space
\* whose node pages were writable before lock_space is a round trip: every
\* entry of its page table, PPN and flags, is what it was before lock_space,
\* and the frame allocator's bitmap is what it was then
AS_LockUnlockRoundTripFromUnlocked ==
    (UnlockedAfterLock /\ NodesWritable(last_op.after_lock.mem, kernel_space.val.page_table)) =>
        /\ \A f \in KernelNodeFrames : mem[f] = last_op.after_lock.mem[f]
        /\ frame_allocator = last_op.after_lock.fa

\* the round trip was made on a kernel address space whose node pages were
\* writable before it and read-only in between
AS_LockUnlockWitness ==
    /\ UnlockedAfterLock
    /\ NodesWritable(last_op.after_lock.mem, kernel_space.val.page_table)
    /\ \E f \in KernelNodeFrames : mem[f] # last_op.mem_before[f]

-----------------------------------------------------------------------------
(* kmain on several harts *)

\* hart h is between the load of the temporary address space and the reload
\* of self in lock_space: about to load the one, or not yet done with the other
InLockSequence(h) == boot.pc[h] \in {"another_space.load", "lock_table", "self.load"}

\* hart h holds a guard of KERNEL_ADDRESS_SPACE: it is in lock_space, in the
\* load of mm::hart_init or in the translate of userret_on_trampoline
HoldsKernelSpace(h) ==
    boot.pc[h] \in {"make_kernel", "another_space.load", "lock_table", "self.load", "drop",
                    "load", "userret:translate"}

KM_NoInterruptUnderUserVector ==
    \A h \in BootHarts :
        ~(boot.mode[h] = "S" /\ boot.sstatus[h].sie /\ boot.stvec[h] = TRAMPOLINE_BASE_VA)

\* C38: every hart that reaches usertrapret has a running process in its own
\* per-CPU block, so the lookup of the current process fails on no hart
KM_EveryHartHasProcess ==
    \A h \in BootHarts :
        /\ boot.pc[h] \in {"stvec::write", "set_spp", "current_process"}
               => boot.running_process[h].some
        /\ boot.pc[h] # "no runable process"

-----------------------------------------------------------------------------
(* the ready queue and the running process *)

\* C39: after any sequence of create_process, pop_one, push_one,
\* set_executing_process and take_executing_process calls every PCB is at most
\* once in the ready queue, and no PCB is in the ready queue while it is the
\* running process of the hart
PM_QueuedOnceAndNotRunning ==
    /\ \A i \in DOMAIN ready_queue : \A j \in DOMAIN ready_queue :
           ready_queue[i] = ready_queue[j] => i = j
    /\ running_process.some =>
           \A i \in DOMAIN ready_queue : ready_queue[i] # running_process.val

-----------------------------------------------------------------------------
(* FrameGuards of several harts *)

\* the frames in hand: returned by allocate_one_frame, the guard not yet made
FramesInHand ==
    {[hart |-> h, at |-> 0, frame |-> harts.id[h]] : h \in {g \in Harts : harts.pc[g] = "zero"}}

\* C40: under any interleaving of the allocate_one_frame and
\* deallocate_one_frame calls of several harts, those of FrameGuard drops
\* included, no frame is owned by two live FrameGuards, every owned frame is
\* marked allocated, and allocate_one_frame has not returned a frame that was
\* owned when it returned it
FH_FrameOwnedOnce ==
    /\ \A a \in LiveFrameGuards \cup FramesInHand : \A b \in LiveFrameGuards \cup FramesInHand :
           a.frame = b.frame => a = b
    /\ \A a \in LiveFrameGuards \cup FramesInHand :
           frame_allocator.page_allocated[a.frame - frame_allocator.base_addr.pn + 1] # 0
    /\ (last_op.name = "allocate_one_frame" /\ last_op.ok) => ~last_op.allocated

\* a hart was given a frame that had been freed before, while another hart
\* holds a live FrameGuard
FH_FrameOwnedOnceWitness ==
    /\ last_op.name = "allocate_one_frame"
    /\ last_op.ok
    /\ last_op.again
    /\ \E g \in Harts : g # last_op.p /\ harts.got[g] # <<>>

=============================================================================
